---- MODULE Spec2Model ----
(***************************************************************************)
(* A model of hass2ch: the retry executor (pkg/retry, pkg/clickhouse),     *)
(* the partitioned batching engine (pkg/channel) and the Home Assistant    *)
(* websocket client (hass).  Each subsystem has its own specification      *)
(* over the module's variables; the variables of the other subsystems      *)
(* stay at their idle values.                                              *)
(***************************************************************************)
EXTENDS Integers, Sequences, FiniteSets, TLC

VARIABLES
    \* ---- retry executor: one invocation of retry.DoWithCallbacks ----
    cfg,            \* retry.Config of the invocation
    attempt,        \* the loop variable of DoWithCallbacks
    calls,          \* number of invocations of fn so far
    lastErr,        \* lastErr of DoWithCallbacks (NoErr: nil)
    retPc,          \* "call" | "wait" | "done"
    retResult,      \* what DoWithCallbacks returned
    ctxDone,        \* the ctx handed to Do is cancelled
    backoffTime,    \* the delay of the current wait
    prevBackoff,    \* the delay of the previous wait (-1: none)
    randDraw,       \* numerator of the rand.Float64() draw of the current wait
    wake,           \* which case of the select was taken: "none" | "ctx" | "timer"
    allRetryable,   \* history: every error so far was classified retryable
    callsAtCancel,  \* history: calls when ctx was cancelled during a wait (-1: never)
    \* ---- batching engine: one call of channel.Batch ----
    opts,           \* BatchOptions after defaults()
    inItems,        \* history: the items received from in, in arrival order
    batPc,          \* the goroutine of Batch: "recv" | "errsend" | "lock" | "send" |
                    \*   "closeLock" | "flush" | "done"
    curItem,        \* the item the goroutine is working on
    batMtx,         \* holder of batchesMtx: "free" | "main" | "timer" (the one sending)
    batches,        \* map key -> accumulated items
    timers,         \* map key -> id of the timer armed last for the key
    timerObjs,      \* every timer created by time.AfterFunc: key, deadline, state
    now,            \* the clock
    out,            \* history: the batches sent on out, with time and sender
    errc,           \* the buffer of errc
    errsRecv,       \* history: the errors the consumer took from errc
    flushLeft,      \* keys the final range over batches has not reached yet
    outClosed,      \* out and errc are closed
    \* ---- Home Assistant client: one hass.Client with one SubscribeEvents ----
    conn,               \* c.conn: 0 is nil, n > 0 the n-th connection dialled
    connUp,             \* the transport of c.conn is up (FALSE after a loss or Close)
    wire,               \* messages of the source in flight on c.conn
    srvAuth,            \* the source's side of the auth handshake on c.conn
    srvPending,         \* subscribe requests the source holds unanswered
    srvSubs,            \* request ids the source has subscribed on c.conn
    isAuthenticated,    \* c.isAuthenticated
    receiveCancelled,   \* c.receiveCtx is cancelled
    rcvPc,              \* receive(): "none" | "select" | "read" | "send" | "exited"
    rcvMsg,             \* the message handleMessage is sending
    activeReceiversNum, \* c.activeReceiversNum
    activeReceivers,    \* ids registered in c.activeReceivers (id n maps to channel n)
    resultClosed,       \* result channels that have been closed
    activeReceiversMtx, \* holder of c.activeReceiversMtx: "free" | "recv"
    isReconnecting,     \* c.isReconnecting
    subscriptions,      \* c.subscriptions: the output channels, in order
    recPc,              \* reconnect goroutine: "idle" | "start" | "dial" | "auth" |
                        \*   "restore" | "sub"
    recSubs,            \* its copy of c.subscriptions
    recInterval,        \* its backoff interval
    ssPc,               \* startSubscription per caller: "none" | "wait" | "timeout" |
                        \*   "reject"
    ssId,               \* receiverNum of that call (0 outside a call)
    fwd,                \* forwarder per receiver id: "none" | "wait" | "closing" |
                        \*   "send" | "done"
    fwdMsg,             \* n > 0: the event a forwarder is sending on outputChan;
                        \*   -n: history, the event it has sent last
    outputChan,         \* the buffer of the output channel
    chanClosed,         \* the output channel is closed
    chanReturned,       \* SubscribeEvents returned the output channel to the caller
    delivered,          \* history: the events the caller received from the channel
    hcPc,               \* the caller: "new" | "auth" | "ready" | "subscribing" |
                        \*   "subscribed" | "failed"
    closeCalled,        \* the caller has invoked Close()
    closedAgain,        \* the caller has invoked Close() a second time
    subCtxDone,         \* the ctx given to SubscribeEvents is cancelled
    drops,              \* history: per connection loss, whether a subscription
                        \*   was active (its channel returned and open) at the loss
    emitted,            \* history: number of events the source emitted
    handled,            \* history: events the receive loop handed to a forwarder
    replayed,           \* history: ids of subscriptions restored by reconnect
    panicked,           \* a goroutine panicked: "" or the reason
    \* ---- orchestrator: one run of Pipeline.Run ----
    plDatabase,         \* p.database
    plPc,               \* Run: "select" | "handle" | "stopped"
    plIn,               \* the batch waiting on stateChangeBatch (NoBatch: none)
    plBatch,            \* the batch handleStateChangeBatch works on
    tableExists,        \* p.tableExists: the tables known to exist
    lastInsert,         \* history: the insert issued for the last batch handled
    plCtxDone,          \* the ctx of Run is cancelled
    plChanClosed,       \* stateChangeBatch is closed
    plReceived,         \* history: number of batches emitted to Run
    failedBefore,       \* history: the write of some batch has failed
    processedAfterFailure,  \* history: a batch was handled after a failed write
    \* ---- Home Assistant client: one call of GetStates ----
    gsPc,               \* GetStates: "none" | "wait" | "timeout" | "reject" | "returned"
    gsId,               \* receiverNum of the call (0 before it)
    gsResult,           \* what GetStates returned: "" | "states" | "parse" |
                        \*   "failed" | "write"
    gsAsked,            \* the get_states request the source holds (0: none)
    \* ---- Close() and reconnect step by step, with c.reconnectMu ----
    reconnectMu,        \* who holds c.reconnectMu: "free" | "Close" | "receive" |
                        \*   "reconnect"
    clPc,               \* Close(): "idle" | "lock" | "locked" | "conn" | "returned"
    clAt,               \* where the reconnect goroutine was when Close() was
                        \*   called (history)
    \* ---- the create statements of the orchestrator (history) ----
    lastCreates,        \* the creates the last handleStateChangeBatch issued, in
                        \*   order: <<[table, ok]>>
    createOk,           \* tables a create has succeeded for
    createIssued,       \* tables a create was issued for
    \* ---- Pipeline.Run from its call on ----
    plSubscribed,       \* Run has called SubscribeEvents
    plDatabaseOk,       \* createDatabaseIfNotExists: "none" | "ok" | "failed"
    plErrc,             \* errChan of the batching engine: "open" | "error" (one
                        \*   error buffered) | "closedError" | "closed"
    plCancelAt,         \* where Run was when its ctx was cancelled (history)
    \* ---- resolveStateChangeDestination: one event ----
    rsEntity,           \* the part of new_state.entity_id before the first "."
    rsOld,              \* old_state.state
    rsNew,              \* new_state.state
    rsPc,               \* "idle" | "input" | "done"
    rsResult            \* what resolveStateChangeDestination returned

retryVars == <<cfg, attempt, calls, lastErr, retPc, retResult, ctxDone,
               backoffTime, prevBackoff, randDraw, wake, allRetryable,
               callsAtCancel>>

batchVars == <<opts, inItems, batPc, curItem, batMtx, batches, timers, timerObjs,
               now, out, errc, errsRecv, flushLeft, outClosed>>

clientVars == <<conn, connUp, wire, srvAuth, srvPending, srvSubs, isAuthenticated,
                receiveCancelled, rcvPc, rcvMsg, activeReceiversNum, activeReceivers,
                resultClosed, activeReceiversMtx, isReconnecting, subscriptions,
                recPc, recSubs, recInterval, ssPc, ssId, fwd, fwdMsg, outputChan,
                chanClosed, chanReturned, delivered, hcPc, closeCalled, closedAgain, subCtxDone,
                drops, emitted, handled, replayed, panicked>>

pipelineVars == <<plDatabase, plPc, plIn, plBatch, tableExists, lastInsert,
                  plCtxDone, plChanClosed, plReceived, failedBefore,
                  processedAfterFailure>>

getStatesVars == <<gsPc, gsId, gsResult, gsAsked>>

closeVars == <<reconnectMu, clPc, clAt>>

createVars == <<lastCreates, createOk, createIssued>>

runVars == <<plSubscribed, plDatabaseOk, plErrc, plCancelAt>>

resolveVars == <<rsEntity, rsOld, rsNew, rsPc, rsResult>>

vars == <<retryVars, batchVars, clientVars, pipelineVars, getStatesVars, closeVars,
          createVars, runVars, resolveVars>>

\* What an action of one subsystem leaves alone.
notRetry == <<batchVars, clientVars, pipelineVars, getStatesVars, closeVars, createVars,
              runVars, resolveVars>>
notBatch == <<retryVars, clientVars, pipelineVars, getStatesVars, closeVars, createVars,
              runVars, resolveVars>>
notClient == <<retryVars, batchVars, pipelineVars, getStatesVars, closeVars, createVars,
               runVars, resolveVars>>
notPipeline == <<retryVars, batchVars, clientVars, getStatesVars, closeVars, createVars,
                 runVars, resolveVars>>
\* What an action of GetStates, which works on the client, leaves alone.
notSession == <<retryVars, batchVars, pipelineVars, closeVars, createVars, runVars,
                resolveVars>>
\* What a step of Close() or of reconnect that works with c.reconnectMu leaves alone.
\* What handleStateChangeBatch leaves alone.
notHandle == <<retryVars, batchVars, clientVars, getStatesVars, closeVars, runVars,
               resolveVars>>
\* What a step of Run before or beside its loop leaves alone.
notRun == <<retryVars, batchVars, clientVars, getStatesVars, closeVars, createVars,
            resolveVars>>
notClose == <<retryVars, batchVars, pipelineVars, getStatesVars, createVars, runVars,
              resolveVars>>

(***************************************************************************)
(* Bounds of the model.                                                    *)
(***************************************************************************)
MaxRetriesBound == 3    \* MaxRetries ranges over -1..MaxRetriesBound
IntervalBound == 2      \* InitialInterval ranges over 1..IntervalBound (ns)
RandDenom == 4          \* rand.Float64() ranges over k/RandDenom, 0 <= k < RandDenom
MaxItems == 3           \* at most MaxItems items arrive on in
MaxSizeBound == 3       \* BatchOptions.MaxSize ranges over 0..MaxSizeBound
MaxWaitBound == 2       \* BatchOptions.MaxWait, in ticks of the clock
MaxTime == 3            \* the clock stops at MaxTime
MaxDrops == 1           \* at most MaxDrops connection losses
MaxEvents == 1          \* the source emits at most MaxEvents events
MaxEarlyDrops == 1      \* further losses, of connections not yet authenticated
WireCap == 1            \* messages in flight on a connection
OutputChanCap == 1      \* capacity of the output channel in the model
MaxBatchLen == 2        \* events per batch handed to handleStateChangeBatch
MaxBatches == 2         \* batches emitted to Run
RunBatchLen == 1        \* events per batch where Run is followed from its call on

(***************************************************************************)
(* Helpers.                                                                *)
(***************************************************************************)
RECURSIVE Pow(_, _)
Pow(b, e) == IF e <= 0 THEN 1 ELSE b * Pow(b, e - 1)



\* strings.Contains on messages, which the model keeps as sequences of words
Contains(msg, pat) ==
    \E i \in 1..(Len(msg) - Len(pat) + 1) : SubSeq(msg, i, i + Len(pat) - 1) = pat

(***************************************************************************)
(* Errors.  An error has a message and, when it (or an error it wraps) is  *)
(* a net.Error, the answers of Timeout() and Temporary().                  *)
(***************************************************************************)
NoErr == [nil |-> TRUE]

PlainErr(msg) == [nil |-> FALSE, net |-> FALSE, timeout |-> FALSE,
                  temporary |-> FALSE, msg |-> msg]

NetErr(timeout, temporary, msg) ==
    [nil |-> FALSE, net |-> TRUE, timeout |-> timeout, temporary |-> temporary,
     msg |-> msg]

\* fmt.Errorf(prefix + ": %w", err): the message grows, errors.As still finds err
Wrap(prefix, err) == [err EXCEPT !.msg = prefix \o <<":">> \o err.msg]

\* What one HTTP round trip of Execute can meet.
Outcomes ==
    { [t |-> "http", status |-> "200", body |-> <<>>],
      [t |-> "http", status |-> "400", body |-> <<"Syntax", "error">>],
      [t |-> "http", status |-> "503", body |-> <<>>],
      [t |-> "http", status |-> "500", body |-> <<"Too", "many", "parts">>],
      [t |-> "transport", err |-> NetErr(TRUE, FALSE, <<"i/o", "timeout">>)],
      [t |-> "transport", err |-> NetErr(FALSE, FALSE, <<"tls", "handshake", "failure">>)] }

\* The function Execute hands to DoWithCallbacks: one request, its error or nil.
ExecuteOnce(o) ==
    IF o.t = "transport"
    THEN Wrap(<<"failed", "to", "execute", "query">>, o.err)
    ELSE IF o.status # "200"
         THEN PlainErr(<<"query", "execution", "failed", "with", "status", o.status, ":">>
                       \o o.body)
         ELSE NoErr

\* The loop of IsNetworkError over the status codes: the condition compares the
\* formatted text "status <code>" with the empty string, not with the error.
StatusLoopHit(err) ==
    \E statusCode \in {"500", "502", "503", "504"} :
        (~err.nil) /\ (<<"status", statusCode>> # <<>>)

IsNetworkError(err) ==
    IF (~err.nil) /\ err.net
    THEN err.timeout \/ err.temporary
    ELSE IF (~err.nil) /\ (\/ err.msg = <<"connection", "refused">>
                           \/ err.msg = <<"no", "such", "host">>
                           \/ err.msg = <<"i/o", "timeout">>
                           \/ err.msg = <<"connection", "reset", "by", "peer">>)
         THEN TRUE
         ELSE StatusLoopHit(err)

isRetryableError(err) ==
    IF err.nil THEN FALSE
    ELSE IF IsNetworkError(err) THEN TRUE
    ELSE IF \/ Contains(err.msg, <<"connection", "refused">>)
            \/ Contains(err.msg, <<"connection", "reset">>)
            \/ Contains(err.msg, <<"no", "route", "to", "host">>)
            \/ Contains(err.msg, <<"i/o", "timeout">>)
         THEN TRUE
    ELSE IF \/ Contains(err.msg, <<"Too", "many", "parts">>)
            \/ Contains(err.msg, <<"Memory", "limit">>)
            \/ Contains(err.msg, <<"DB::Exception:", "Timeout">>)
            \/ Contains(err.msg, <<"No", "space", "left", "on", "device">>)
         THEN TRUE
    ELSE IF \/ Contains(err.msg, <<"status", "500">>)
            \/ Contains(err.msg, <<"status", "502">>)
            \/ Contains(err.msg, <<"status", "503">>)
            \/ Contains(err.msg, <<"status", "504">>)
         THEN TRUE
    ELSE FALSE

(***************************************************************************)
(* Backoff policy.  Durations are whole nanoseconds; Multiplier and        *)
(* RandomizationFactor are fractions <<numerator, denominator>>; the       *)
(* float64 arithmetic of the code is done exactly, and the conversion to   *)
(* time.Duration truncates.                                                *)
(***************************************************************************)
Multipliers == { <<1, 1>>, <<3, 2>>, <<2, 1>> }
Factors == { <<0, 1>>, <<1, 2>>, <<1, 1>> }

Configs ==
    [ MaxRetries : -1..MaxRetriesBound,
      InitialInterval : 1..IntervalBound,
      MaxInterval : 1..(IntervalBound + 1),
      Multiplier : Multipliers,
      RandomizationFactor : Factors ]

\* Mutant of CapInterval: the cap at MaxInterval is forgotten.
CapIntervalMissing(c, n, d) == <<n, d>>

\* backoff after "if backoff > MaxInterval { backoff = MaxInterval }", as a fraction
CapInterval(c, n, d) ==
    IF n > c.MaxInterval * d THEN <<c.MaxInterval, 1>> ELSE <<n, d>>

\* time.Duration(x) for x = n/d >= 0
ToDuration(n, d) == n \div d

nextBackoff(c, retry, rn) ==
    IF retry >= c.MaxRetries THEN 0
    ELSE LET b == CapInterval(c, c.InitialInterval * Pow(c.Multiplier[1], retry),
                              Pow(c.Multiplier[2], retry))
             fn == c.RandomizationFactor[1]
             fd == c.RandomizationFactor[2]
             \* delta = f * b, minn = b - delta, maxx = b + delta, over b[2] * fd
             minn == b[1] * (fd - fn)
             maxx == b[1] * (fd + fn)
             \* minn + rand * (maxx - minn), over b[2] * fd * RandDenom
             res == minn * RandDenom + rn * (maxx - minn)
         IN  ToDuration(res, b[2] * fd * RandDenom)

(***************************************************************************)
(* retry.DoWithCallbacks, called by clickhouse.Client.Execute.             *)
(***************************************************************************)
RetryInit ==
    /\ cfg \in Configs
    /\ attempt = 0
    /\ calls = 0
    /\ lastErr = NoErr
    /\ retPc = "call"
    /\ retResult = [tag |-> "none"]
    /\ ctxDone = FALSE
    /\ backoffTime = 0
    /\ prevBackoff = -1
    /\ randDraw = 0
    /\ wake = "none"
    /\ allRetryable = TRUE
    /\ callsAtCancel = -1

\* Mutant of LoopCond: the last attempt is left out.
LoopCondStrict(a, c) == a < c.MaxRetries

\* "for attempt := 0; attempt <= cfg.MaxRetries": the condition of the loop
LoopCond(a, c) == a <= c.MaxRetries

\* The cases of the select that are ready when it is entered.
ReadyCases(done, delay) ==
    (IF done THEN {"ctx"} ELSE {}) \cup (IF delay = 0 THEN {"timer"} ELSE {})

\* Mutant of SelectCases: the select has no case for ctx.Done().
SelectCasesNoCtx == {"timer"}

\* The cases a blocked select can be woken by.
SelectCases == {"ctx", "timer"}

\* The loop is left at once: "operation failed after %d retries" with lastErr.
DoLoopExit ==
    /\ retPc = "call"
    /\ ~LoopCond(attempt, cfg)
    /\ retPc' = "done"
    /\ retResult' = [tag |-> "exhausted", err |-> lastErr]
    /\ UNCHANGED <<cfg, attempt, calls, lastErr, ctxDone, backoffTime, prevBackoff,
                   randDraw, wake, allRetryable, callsAtCancel>>
    /\ UNCHANGED notRetry

\* fn() returned nil.
DoCallSuccess ==
    /\ retPc = "call"
    /\ LoopCond(attempt, cfg)
    /\ \E o \in Outcomes :
          /\ ExecuteOnce(o).nil
          /\ calls' = calls + 1
          /\ retPc' = "done"
          /\ retResult' = [tag |-> "nil"]
    /\ UNCHANGED <<cfg, attempt, lastErr, ctxDone, backoffTime, prevBackoff,
                   randDraw, wake, allRetryable, callsAtCancel>>
    /\ UNCHANGED notRetry

\* fn() failed and isRetryable(err) is false.
DoCallFatal ==
    /\ retPc = "call"
    /\ LoopCond(attempt, cfg)
    /\ \E o \in Outcomes :
          LET err == ExecuteOnce(o) IN
          /\ ~err.nil
          /\ ~isRetryableError(err)
          /\ calls' = calls + 1
          /\ lastErr' = [err |-> err, call |-> calls + 1]
          /\ allRetryable' = FALSE
          /\ retPc' = "done"
          /\ retResult' = [tag |-> "nonretryable", err |-> lastErr']
    /\ UNCHANGED <<cfg, attempt, ctxDone, backoffTime, prevBackoff, randDraw, wake,
                   callsAtCancel>>
    /\ UNCHANGED notRetry

\* fn() failed with a retryable error at attempt == MaxRetries.
DoCallExhausted ==
    /\ retPc = "call"
    /\ LoopCond(attempt, cfg)
    /\ \E o \in Outcomes :
          LET err == ExecuteOnce(o) IN
          /\ ~err.nil
          /\ isRetryableError(err)
          /\ attempt = cfg.MaxRetries
          /\ calls' = calls + 1
          /\ lastErr' = [err |-> err, call |-> calls + 1]
          /\ retPc' = "done"
          /\ retResult' = [tag |-> "exhausted", err |-> lastErr']
    /\ UNCHANGED <<cfg, attempt, ctxDone, backoffTime, prevBackoff, randDraw, wake,
                   allRetryable, callsAtCancel>>
    /\ UNCHANGED notRetry

\* fn() failed with a retryable error below MaxRetries: the backoff is computed,
\* the timer created and the select entered.
DoCallBackoff ==
    /\ retPc = "call"
    /\ LoopCond(attempt, cfg)
    /\ \E o \in Outcomes, rn \in 0..(RandDenom - 1) :
          LET err == ExecuteOnce(o)
              delay == nextBackoff(cfg, attempt, rn) IN
          /\ ~err.nil
          /\ isRetryableError(err)
          /\ attempt # cfg.MaxRetries
          /\ calls' = calls + 1
          /\ lastErr' = [err |-> err, call |-> calls + 1]
          /\ prevBackoff' = IF attempt = 0 THEN -1 ELSE backoffTime
          /\ backoffTime' = delay
          /\ randDraw' = rn
          /\ retPc' = "wait"
          /\ wake' \in (IF ReadyCases(ctxDone, delay) \cap SelectCases = {}
                        THEN {"none"}
                        ELSE ReadyCases(ctxDone, delay) \cap SelectCases)
    /\ UNCHANGED <<cfg, attempt, ctxDone, retResult, allRetryable, callsAtCancel>>
    /\ UNCHANGED notRetry

\* The caller cancels ctx; a Do blocked in its select is woken by ctx.Done().
CtxCancel ==
    /\ ~ctxDone
    /\ retPc # "done"
    /\ ctxDone' = TRUE
    /\ IF retPc = "wait" /\ wake = "none"
       THEN /\ wake' = (IF "ctx" \in SelectCases THEN "ctx" ELSE wake)
            /\ callsAtCancel' = calls
       ELSE UNCHANGED <<wake, callsAtCancel>>
    /\ UNCHANGED <<cfg, attempt, calls, lastErr, retPc, retResult, backoffTime,
                   prevBackoff, randDraw, allRetryable>>
    /\ UNCHANGED notRetry

\* The backoff delay elapses; a Do blocked in its select is woken by timer.C.
TimerFire ==
    /\ retPc = "wait"
    /\ wake = "none"
    /\ wake' = "timer"
    /\ UNCHANGED <<cfg, attempt, calls, lastErr, retPc, retResult, ctxDone,
                   backoffTime, prevBackoff, randDraw, allRetryable, callsAtCancel>>
    /\ UNCHANGED notRetry

\* case <-ctx.Done(): "context canceled during retry"
DoWakeCtx ==
    /\ retPc = "wait"
    /\ wake = "ctx"
    /\ retPc' = "done"
    /\ retResult' = [tag |-> "canceled"]
    /\ wake' = "none"
    /\ UNCHANGED <<cfg, attempt, calls, lastErr, ctxDone, backoffTime, prevBackoff,
                   randDraw, allRetryable, callsAtCancel>>
    /\ UNCHANGED notRetry

\* case <-timer.C: the next attempt
DoWakeTimer ==
    /\ retPc = "wait"
    /\ wake = "timer"
    /\ attempt' = attempt + 1
    /\ retPc' = "call"
    /\ wake' = "none"
    /\ UNCHANGED <<cfg, calls, lastErr, retResult, ctxDone, backoffTime, prevBackoff,
                   randDraw, allRetryable, callsAtCancel>>
    /\ UNCHANGED notRetry


(***************************************************************************)
(* channel.Batch.  The consumer of out is always ready, so a handoff on    *)
(* out takes no time; the goroutine still stops before each handoff, with  *)
(* batchesMtx held, and timers fire meanwhile.                             *)
(***************************************************************************)
DefaultMaxSize == 100
ErrcCap == 1

Doms == {"a", "b", "err"}

NoItem == [dom |-> "", seq |-> 0, at |-> 0]

\* BatchOptions.defaults (MaxWait is always given here)
defaults(o) == IF o.MaxSize = 0 THEN [o EXCEPT !.MaxSize = DefaultMaxSize] ELSE o

\* Mutant of PartitionBy: all items are batched together, the partition function
\* is not consulted.
PartitionByNil(item) == [err |-> FALSE, key |-> ""]

\* opts.PartitionBy(item): the key of the item, or an error
PartitionBy(item) ==
    IF item.dom = "err" THEN [err |-> TRUE, key |-> ""]
    ELSE [err |-> FALSE, key |-> item.dom]

MapPut(m, k, v) == [x \in DOMAIN m \cup {k} |-> IF x = k THEN v ELSE m[x]]
MapDelete(m, k) == [x \in DOMAIN m \ {k} |-> m[x]]
\* m[k] of a Go map of slices: nil when k is absent
MapGet(m, k) == IF k \in DOMAIN m THEN m[k] ELSE <<>>

\* Mutant of FlushKeys: the closure of in flushes nothing.
FlushNothing(m) == {}

\* "for _, batch := range batches": the batches the final flush sends
FlushKeys(m) == DOMAIN m

\* "if len(batches[key]) == opts.MaxSize"
SizeReached(b, o) == Len(b) = o.MaxSize

Emit(items, by, k) == [items |-> items, by |-> by, at |-> now, key |-> k]

BatchInit ==
    /\ opts \in {defaults([MaxSize |-> s, MaxWait |-> MaxWaitBound]) : s \in 0..MaxSizeBound}
    /\ inItems = <<>>
    /\ batPc = "recv"
    /\ curItem = NoItem
    /\ batMtx = "free"
    /\ batches = <<>>
    /\ timers = <<>>
    /\ timerObjs = <<>>
    /\ now = 0
    /\ out = <<>>
    /\ errc = <<>>
    /\ errsRecv = <<>>
    /\ flushLeft = {}
    /\ outClosed = FALSE

\* "case item, ok := <-in" with ok, and the call of the partition function
BatRecv ==
    /\ batPc = "recv"
    /\ Len(inItems) < MaxItems
    /\ \E d \in Doms :
          LET item == [dom |-> d, seq |-> Len(inItems) + 1, at |-> now] IN
          /\ inItems' = Append(inItems, item)
          /\ curItem' = item
          /\ batPc' = IF PartitionBy(item).err THEN "errsend" ELSE "lock"
    /\ UNCHANGED <<opts, batMtx, batches, timers, timerObjs, now, out, errc, errsRecv,
                   flushLeft, outClosed>>
    /\ UNCHANGED notBatch

\* Mutant of BatErrSend: the error of the partition function is swallowed.
BatErrSendDrop ==
    /\ batPc = "errsend"
    /\ batPc' = "recv"
    /\ curItem' = NoItem
    /\ UNCHANGED <<opts, inItems, batMtx, batches, timers, timerObjs, now, out,
                   errc, errsRecv, flushLeft, outClosed>>
    /\ UNCHANGED notBatch

\* "errc <- err; continue": blocks while the buffer of errc is full
BatErrSend ==
    /\ batPc = "errsend"
    /\ Len(errc) < ErrcCap
    /\ errc' = Append(errc, curItem.seq)
    /\ batPc' = "recv"
    /\ curItem' = NoItem
    /\ UNCHANGED <<opts, inItems, batMtx, batches, timers, timerObjs, now, out,
                   errsRecv, flushLeft, outClosed>>
    /\ UNCHANGED notBatch

\* The consumer of errc takes an error.
ErrConsume ==
    /\ errc # <<>>
    /\ errsRecv' = Append(errsRecv, Head(errc))
    /\ errc' = Tail(errc)
    /\ UNCHANGED <<opts, inItems, batPc, curItem, batMtx, batches, timers, timerObjs,
                   now, out, flushLeft, outClosed>>
    /\ UNCHANGED notBatch

\* batchesMtx.Lock(), first item of a key: a new batch and a new timer; Unlock()
BatNewBatch ==
    /\ batPc = "lock"
    /\ batMtx = "free"
    /\ LET key == PartitionBy(curItem).key IN
       /\ key \notin DOMAIN batches
       /\ batches' = MapPut(batches, key, <<curItem>>)
       /\ timerObjs' = Append(timerObjs, [key |-> key, deadline |-> now + opts.MaxWait,
                                          st |-> "armed"])
       /\ timers' = MapPut(timers, key, Len(timerObjs) + 1)
    /\ batPc' = "recv"
    /\ curItem' = NoItem
    /\ UNCHANGED <<opts, inItems, batMtx, now, out, errc, errsRecv, flushLeft, outClosed>>
    /\ UNCHANGED notBatch

\* batchesMtx.Lock(), a further item below MaxSize: append; Unlock()
BatAppend ==
    /\ batPc = "lock"
    /\ batMtx = "free"
    /\ LET key == PartitionBy(curItem).key IN
       /\ key \in DOMAIN batches
       /\ ~SizeReached(Append(batches[key], curItem), opts)
       /\ batches' = [batches EXCEPT ![key] = Append(@, curItem)]
    /\ batPc' = "recv"
    /\ curItem' = NoItem
    /\ UNCHANGED <<opts, inItems, batMtx, timers, timerObjs, now, out, errc, errsRecv,
                   flushLeft, outClosed>>
    /\ UNCHANGED notBatch

\* batchesMtx.Lock(), the item that fills the batch: append, timers[key].Stop(),
\* and stop at "out <- batches[key]" with the mutex held.  Stop() has no effect
\* on a timer that has fired already.
BatAppendFull ==
    /\ batPc = "lock"
    /\ batMtx = "free"
    /\ LET key == PartitionBy(curItem).key IN
       /\ key \in DOMAIN batches
       /\ SizeReached(Append(batches[key], curItem), opts)
       /\ batches' = [batches EXCEPT ![key] = Append(@, curItem)]
       /\ timerObjs' = [timerObjs EXCEPT ![timers[key]].st =
                            IF @ = "armed" THEN "stopped" ELSE @]
    /\ batMtx' = "main"
    /\ batPc' = "send"
    /\ UNCHANGED <<opts, inItems, curItem, timers, now, out, errc, errsRecv, flushLeft,
                   outClosed>>
    /\ UNCHANGED notBatch

\* "out <- batches[key]; delete(batches, key)"; Unlock()
BatSendFull ==
    /\ batPc = "send"
    /\ LET key == PartitionBy(curItem).key IN
       /\ out' = Append(out, Emit(MapGet(batches, key), "size", key))
       /\ batches' = MapDelete(batches, key)
    /\ batMtx' = "free"
    /\ batPc' = "recv"
    /\ curItem' = NoItem
    /\ UNCHANGED <<opts, inItems, timers, timerObjs, now, errc, errsRecv, flushLeft,
                   outClosed>>
    /\ UNCHANGED notBatch

\* "case item, ok := <-in" with !ok: in is closed and drained
BatRecvClosed ==
    /\ batPc = "recv"
    /\ batPc' = "closeLock"
    /\ UNCHANGED <<opts, inItems, curItem, batMtx, batches, timers, timerObjs, now, out,
                   errc, errsRecv, flushLeft, outClosed>>
    /\ UNCHANGED notBatch

\* batchesMtx.Lock() of the final flush
BatCloseLock ==
    /\ batPc = "closeLock"
    /\ batMtx = "free"
    /\ batMtx' = "main"
    /\ flushLeft' = FlushKeys(batches)
    /\ batPc' = "flush"
    /\ UNCHANGED <<opts, inItems, curItem, batches, timers, timerObjs, now, out, errc,
                   errsRecv, outClosed>>
    /\ UNCHANGED notBatch

\* one "out <- batch" of the final range over batches
BatFlushOne ==
    /\ batPc = "flush"
    /\ \E k \in flushLeft :
          /\ out' = Append(out, Emit(batches[k], "close", k))
          /\ flushLeft' = flushLeft \ {k}
    /\ UNCHANGED <<opts, inItems, batPc, curItem, batMtx, batches, timers, timerObjs,
                   now, errc, errsRecv, outClosed>>
    /\ UNCHANGED notBatch

\* "return": the deferred close(errc) and close(out); batchesMtx stays locked
BatReturn ==
    /\ batPc = "flush"
    /\ flushLeft = {}
    /\ batPc' = "done"
    /\ outClosed' = TRUE
    /\ UNCHANGED <<opts, inItems, curItem, batMtx, batches, timers, timerObjs, now, out,
                   errc, errsRecv, flushLeft>>
    /\ UNCHANGED notBatch

\* The deadline of a timer is reached: its function starts in a goroutine of its own.
BatTimerFire ==
    /\ \E t \in DOMAIN timerObjs :
          /\ timerObjs[t].st = "armed"
          /\ now >= timerObjs[t].deadline
          /\ timerObjs' = [timerObjs EXCEPT ![t].st = "fired"]
    /\ UNCHANGED <<opts, inItems, batPc, curItem, batMtx, batches, timers, now, out,
                   errc, errsRecv, flushLeft, outClosed>>
    /\ UNCHANGED notBatch

\* batchesMtx.Lock() of a timer function
BatTimerLock ==
    /\ batMtx = "free"
    /\ \E t \in DOMAIN timerObjs :
          /\ timerObjs[t].st = "fired"
          /\ timerObjs' = [timerObjs EXCEPT ![t].st = "sending"]
          /\ batMtx' = "timer"
    /\ UNCHANGED <<opts, inItems, batPc, curItem, batches, timers, now, out, errc,
                   errsRecv, flushLeft, outClosed>>
    /\ UNCHANGED notBatch

\* "out <- batches[key]; delete(batches, key)" of a timer function; Unlock()
BatTimerSend ==
    /\ \E t \in DOMAIN timerObjs :
          /\ timerObjs[t].st = "sending"
          /\ batMtx = "timer"
          /\ out' = Append(out, Emit(MapGet(batches, timerObjs[t].key), "timer",
                                     timerObjs[t].key))
          /\ batches' = MapDelete(batches, timerObjs[t].key)
          /\ timerObjs' = [timerObjs EXCEPT ![t].st = "done"]
    /\ batMtx' = "free"
    /\ UNCHANGED <<opts, inItems, batPc, curItem, timers, now, errc, errsRecv,
                   flushLeft, outClosed>>
    /\ UNCHANGED notBatch

\* Time passes while every goroutine waits: for an item, or for a deadline.
BatTick ==
    /\ now < MaxTime
    /\ batPc \in {"recv", "done"}
    /\ \A t \in DOMAIN timerObjs :
          /\ timerObjs[t].st = "armed" => now < timerObjs[t].deadline
          /\ batPc = "recv" => timerObjs[t].st \notin {"fired", "sending"}
    /\ now' = now + 1
    /\ UNCHANGED <<opts, inItems, batPc, curItem, batMtx, batches, timers, timerObjs,
                   out, errc, errsRecv, flushLeft, outClosed>>
    /\ UNCHANGED notBatch

BatchNext ==
    \/ BatRecv
    \/ BatErrSend
    \/ ErrConsume
    \/ BatNewBatch
    \/ BatAppend
    \/ BatAppendFull
    \/ BatSendFull
    \/ BatRecvClosed
    \/ BatCloseLock
    \/ BatFlushOne
    \/ BatReturn
    \/ BatTimerFire
    \/ BatTimerLock
    \/ BatTimerSend
    \/ BatTick

RetryNext ==
    \/ DoLoopExit
    \/ DoCallSuccess
    \/ DoCallFatal
    \/ DoCallExhausted
    \/ DoCallBackoff
    \/ CtxCancel
    \/ TimerFire
    \/ DoWakeCtx
    \/ DoWakeTimer

(***************************************************************************)
(* The Home Assistant websocket client (hass.Client).  The model follows   *)
(* one client through Connect, WaitAuthenticated and one SubscribeEvents,  *)
(* with the source on the other side of the connection, connection losses, *)
(* the reconnect goroutine, and the caller's Close() and ctx cancellation. *)
(* A result channel is identified with the receiver id it is registered    *)
(* under.  A panic ends the process: no action is enabled afterwards.      *)
(***************************************************************************)
Callers == {"caller", "reconn"}     \* who runs startSubscription
MaxIds == MaxDrops + 2              \* receiver ids: one per startSubscription
Ids == 1..MaxIds
TheChan == 1                        \* the output channel of the SubscribeEvents call

ReconnectInterval == 2              \* c.reconnectInterval, in model ticks
MaxReconnectInterval == 4           \* c.maxReconnectInterval
BackoffFactor == <<3, 2>>           \* c.reconnectBackoffFactor = 1.5

Msg(t, i, s, k) == [type |-> t, id |-> i, success |-> s, n |-> k]
NoMsg == Msg("none", 0, FALSE, 0)
AuthRequiredMessage == Msg("auth_required", 0, TRUE, 0)
AuthOKMessage == Msg("auth_ok", 0, TRUE, 0)
ResultMessage(i, s) == Msg("result", i, s, 0)
EventMessage(i, k) == Msg("event", i, TRUE, k)
AuthInvalidMessage == Msg("auth_invalid", 0, FALSE, 0)

Running == panicked = ""

ClientInit ==
    /\ conn = 0 /\ connUp = FALSE /\ wire = <<>> /\ srvAuth = "none"
    /\ srvPending = {} /\ srvSubs = {}
    /\ isAuthenticated = FALSE /\ receiveCancelled = FALSE
    /\ rcvPc = "none" /\ rcvMsg = NoMsg
    /\ activeReceiversNum = 0 /\ activeReceivers = {} /\ resultClosed = {}
    /\ activeReceiversMtx = "free"
    /\ isReconnecting = FALSE /\ subscriptions = <<>>
    /\ recPc = "idle" /\ recSubs = <<>> /\ recInterval = ReconnectInterval
    /\ ssPc = [p \in Callers |-> "none"] /\ ssId = [p \in Callers |-> 0]
    /\ fwd = [i \in Ids |-> "none"] /\ fwdMsg = [i \in Ids |-> 0]
    /\ outputChan = <<>> /\ chanClosed = FALSE /\ chanReturned = FALSE
    /\ delivered = <<>>
    /\ hcPc = "new" /\ closeCalled = FALSE /\ closedAgain = FALSE
    /\ subCtxDone = FALSE
    /\ drops = <<>> /\ emitted = 0 /\ handled = {} /\ replayed = {}
    /\ panicked = ""

\* Connect after a successful dial: the new connection replaces c.conn, the
\* session is unauthenticated, a fresh receive context and receive loop start.
ConnectOK ==
    /\ conn' = conn + 1 /\ connUp' = TRUE /\ wire' = <<>>
    /\ srvAuth' = "start" /\ srvPending' = {} /\ srvSubs' = {}
    /\ isAuthenticated' = FALSE /\ receiveCancelled' = FALSE
    /\ rcvPc' = "select"

\* ---- the caller (cmd/hass2ch: Connect, WaitAuthenticated, SubscribeEvents) ----
HcConnect ==
    /\ Running /\ hcPc = "new"
    /\ ConnectOK
    /\ hcPc' = "auth"
    /\ UNCHANGED <<rcvMsg, activeReceiversNum, activeReceivers, resultClosed,
                   activeReceiversMtx, isReconnecting, subscriptions, recPc, recSubs,
                   recInterval, ssPc, ssId, fwd, fwdMsg, outputChan, chanClosed,
                   chanReturned, delivered, closeCalled, closedAgain, subCtxDone, drops, emitted,
                   handled, replayed, panicked>>
    /\ UNCHANGED notClient

HcConnectFail ==
    /\ Running /\ hcPc = "new"
    /\ hcPc' = "failed"
    /\ UNCHANGED <<conn, connUp, wire, srvAuth, srvPending, srvSubs, isAuthenticated,
                   receiveCancelled, rcvPc, rcvMsg, activeReceiversNum,
                   activeReceivers, resultClosed, activeReceiversMtx, isReconnecting,
                   subscriptions, recPc, recSubs, recInterval, ssPc, ssId, fwd, fwdMsg,
                   outputChan, chanClosed, chanReturned, delivered, closeCalled, closedAgain,
                   subCtxDone, drops, emitted, handled, replayed, panicked>>
    /\ UNCHANGED notClient

\* Mutant of WaitAuthenticated: a cancelled ctx ends the wait with nil.
WaitAuthenticatedAnyway(auth, done) == IF auth \/ done THEN "nil" ELSE "sleep"

\* One round of the polling loop of WaitAuthenticated: nil once isAuthenticated
\* is set, else ctx.Err() if ctx is done, else sleep and poll again.
WaitAuthenticated(auth, done) ==
    IF auth THEN "nil" ELSE IF done THEN "ctx" ELSE "sleep"

HcWaitAuthenticated ==
    /\ Running /\ hcPc = "auth"
    /\ WaitAuthenticated(isAuthenticated, subCtxDone) # "sleep"
    /\ hcPc' = IF WaitAuthenticated(isAuthenticated, subCtxDone) = "nil"
               THEN "ready" ELSE "failed"
    /\ UNCHANGED <<conn, connUp, wire, srvAuth, srvPending, srvSubs, isAuthenticated,
                   receiveCancelled, rcvPc, rcvMsg, activeReceiversNum,
                   activeReceivers, resultClosed, activeReceiversMtx, isReconnecting,
                   subscriptions, recPc, recSubs, recInterval, ssPc, ssId, fwd, fwdMsg,
                   outputChan, chanClosed, chanReturned, delivered, closeCalled,
                   closedAgain, subCtxDone, drops, emitted, handled, replayed, panicked>>
    /\ UNCHANGED notClient

\* SubscribeEvents up to its call of startSubscription: the output channel is
\* made and recorded in c.subscriptions.
HcSubscribeEvents ==
    /\ Running /\ hcPc = "ready"
    /\ subscriptions' = Append(subscriptions, TheChan)
    /\ hcPc' = "subscribing"
    /\ UNCHANGED <<conn, connUp, wire, srvAuth, srvPending, srvSubs, isAuthenticated,
                   receiveCancelled, rcvPc, rcvMsg, activeReceiversNum,
                   activeReceivers, resultClosed, activeReceiversMtx, isReconnecting,
                   recPc, recSubs, recInterval, ssPc, ssId, fwd, fwdMsg,
                   outputChan, chanClosed, chanReturned, delivered, closeCalled, closedAgain,
                   subCtxDone, drops, emitted, handled, replayed, panicked>>
    /\ UNCHANGED notClient

\* The caller cancels the ctx it gave to WaitAuthenticated and SubscribeEvents.
HcCtxCancel ==
    /\ Running /\ hcPc \notin {"new", "failed"} /\ ~subCtxDone
    /\ subCtxDone' = TRUE
    /\ UNCHANGED <<conn, connUp, wire, srvAuth, srvPending, srvSubs, isAuthenticated,
                   receiveCancelled, rcvPc, rcvMsg, activeReceiversNum,
                   activeReceivers, resultClosed, activeReceiversMtx, isReconnecting,
                   subscriptions, recPc, recSubs, recInterval, ssPc, ssId, fwd, fwdMsg,
                   outputChan, chanClosed, chanReturned, delivered, hcPc, closeCalled, closedAgain,
                   drops, emitted, handled, replayed, panicked>>
    /\ UNCHANGED notClient

\* Close(): cancels the receive context, closes every recorded output channel,
\* forgets the subscriptions and closes the connection.
Close ==
    /\ receiveCancelled' = TRUE
    /\ IF subscriptions # <<>> /\ chanClosed
       THEN panicked' = "close of closed channel" /\ UNCHANGED chanClosed
       ELSE /\ chanClosed' = (chanClosed \/ subscriptions # <<>>)
            /\ UNCHANGED panicked
    /\ subscriptions' = <<>>
    /\ connUp' = FALSE /\ wire' = <<>> /\ srvPending' = {} /\ srvSubs' = {}
    /\ UNCHANGED <<conn, srvAuth, isAuthenticated, rcvPc, rcvMsg, activeReceiversNum,
                   activeReceivers, resultClosed, activeReceiversMtx, isReconnecting,
                   recPc, recSubs, recInterval, ssPc, ssId, fwd, fwdMsg,
                   outputChan, chanReturned, delivered, hcPc, subCtxDone,
                   drops, emitted, handled, replayed>>

HcClose ==
    /\ Running /\ hcPc \notin {"new", "failed"} /\ ~closeCalled
    /\ closeCalled' = TRUE
    /\ Close
    /\ UNCHANGED closedAgain
    /\ UNCHANGED notClient

\* The caller invokes Close() once more.
HcCloseAgain ==
    /\ Running /\ closeCalled /\ ~closedAgain
    /\ closedAgain' = TRUE
    /\ Close
    /\ UNCHANGED closeCalled
    /\ UNCHANGED notClient

\* The caller takes an event from the output channel.
HcConsume ==
    /\ Running /\ chanReturned /\ outputChan # <<>>
    /\ delivered' = Append(delivered, Head(outputChan))
    /\ outputChan' = Tail(outputChan)
    /\ UNCHANGED <<conn, connUp, wire, srvAuth, srvPending, srvSubs, isAuthenticated,
                   receiveCancelled, rcvPc, rcvMsg, activeReceiversNum,
                   activeReceivers, resultClosed, activeReceiversMtx, isReconnecting,
                   subscriptions, recPc, recSubs, recInterval, ssPc, ssId, fwd, fwdMsg,
                   chanClosed, chanReturned, hcPc, closeCalled, closedAgain, subCtxDone,
                   drops, emitted, handled, replayed, panicked>>
    /\ UNCHANGED notClient

\* ---- the source and the network ----
CanSend == Running /\ conn # 0 /\ connUp /\ Len(wire) < WireCap

SrvAuthRequired ==
    /\ CanSend /\ srvAuth = "start"
    /\ wire' = Append(wire, AuthRequiredMessage)
    /\ srvAuth' = "required"
    /\ UNCHANGED <<conn, connUp, srvPending, srvSubs, isAuthenticated,
                   receiveCancelled, rcvPc, rcvMsg, activeReceiversNum,
                   activeReceivers, resultClosed, activeReceiversMtx, isReconnecting,
                   subscriptions, recPc, recSubs, recInterval, ssPc, ssId, fwd, fwdMsg,
                   outputChan, chanClosed, chanReturned, delivered, hcPc, closeCalled, closedAgain,
                   subCtxDone, drops, emitted, handled, replayed, panicked>>
    /\ UNCHANGED notClient

SrvAuthOK ==
    /\ CanSend /\ srvAuth = "authed"
    /\ wire' = Append(wire, AuthOKMessage)
    /\ srvAuth' = "ok"
    /\ UNCHANGED <<conn, connUp, srvPending, srvSubs, isAuthenticated,
                   receiveCancelled, rcvPc, rcvMsg, activeReceiversNum,
                   activeReceivers, resultClosed, activeReceiversMtx, isReconnecting,
                   subscriptions, recPc, recSubs, recInterval, ssPc, ssId, fwd, fwdMsg,
                   outputChan, chanClosed, chanReturned, delivered, hcPc, closeCalled, closedAgain,
                   subCtxDone, drops, emitted, handled, replayed, panicked>>
    /\ UNCHANGED notClient

\* The source answers a subscribe request, with success or with an error.
SrvResult ==
    /\ CanSend
    /\ \E i \in srvPending, s \in BOOLEAN :
          /\ wire' = Append(wire, ResultMessage(i, s))
          /\ srvPending' = srvPending \ {i}
          /\ srvSubs' = IF s THEN srvSubs \cup {i} ELSE srvSubs
    /\ UNCHANGED <<conn, connUp, srvAuth, isAuthenticated,
                   receiveCancelled, rcvPc, rcvMsg, activeReceiversNum,
                   activeReceivers, resultClosed, activeReceiversMtx, isReconnecting,
                   subscriptions, recPc, recSubs, recInterval, ssPc, ssId, fwd, fwdMsg,
                   outputChan, chanClosed, chanReturned, delivered, hcPc, closeCalled, closedAgain,
                   subCtxDone, drops, emitted, handled, replayed, panicked>>
    /\ UNCHANGED notClient

\* The source emits an event for a subscription it holds; events are numbered.
SrvEvent ==
    /\ CanSend /\ emitted < MaxEvents
    /\ \E i \in srvSubs : wire' = Append(wire, EventMessage(i, emitted + 1))
    /\ emitted' = emitted + 1
    /\ UNCHANGED <<conn, connUp, srvAuth, srvPending, srvSubs, isAuthenticated,
                   receiveCancelled, rcvPc, rcvMsg, activeReceiversNum,
                   activeReceivers, resultClosed, activeReceiversMtx, isReconnecting,
                   subscriptions, recPc, recSubs, recInterval, ssPc, ssId, fwd, fwdMsg,
                   outputChan, chanClosed, chanReturned, delivered, hcPc, closeCalled, closedAgain,
                   subCtxDone, drops, handled, replayed, panicked>>
    /\ UNCHANGED notClient

\* The connection is lost: what was in flight is gone, reads fail from now on.
ConnLoss ==
    /\ Running /\ conn # 0 /\ connUp /\ Len(drops) < MaxDrops
    /\ connUp' = FALSE /\ wire' = <<>> /\ srvPending' = {} /\ srvSubs' = {}
    /\ drops' = Append(drops, chanReturned /\ ~chanClosed)
    /\ UNCHANGED <<conn, srvAuth, isAuthenticated,
                   receiveCancelled, rcvPc, rcvMsg, activeReceiversNum,
                   activeReceivers, resultClosed, activeReceiversMtx, isReconnecting,
                   subscriptions, recPc, recSubs, recInterval, ssPc, ssId, fwd, fwdMsg,
                   outputChan, chanClosed, chanReturned, delivered, hcPc, closeCalled, closedAgain,
                   subCtxDone, emitted, handled, replayed, panicked>>
    /\ UNCHANGED notClient

\* ---- receive(): the message loop of the current connection ----
\* The head of the loop: the select on receiveCtx.Done() with a default case.
RcvSelect ==
    /\ Running /\ rcvPc = "select"
    /\ rcvPc' = IF receiveCancelled THEN "exited" ELSE "read"
    /\ UNCHANGED <<conn, connUp, wire, srvAuth, srvPending, srvSubs, isAuthenticated,
                   receiveCancelled, rcvMsg, activeReceiversNum,
                   activeReceivers, resultClosed, activeReceiversMtx, isReconnecting,
                   subscriptions, recPc, recSubs, recInterval, ssPc, ssId, fwd, fwdMsg,
                   outputChan, chanClosed, chanReturned, delivered, hcPc, closeCalled, closedAgain,
                   subCtxDone, drops, emitted, handled, replayed, panicked>>
    /\ UNCHANGED notClient

\* ReadMessage fails: reconnect(context.Background()) and return.  reconnect
\* does nothing when a reconnection is already under way.
RcvReadError ==
    /\ Running /\ rcvPc = "read" /\ ~connUp
    /\ rcvPc' = "exited"
    /\ IF isReconnecting
       THEN UNCHANGED <<isReconnecting, recPc>>
       ELSE isReconnecting' = TRUE /\ recPc' = "start"
    /\ UNCHANGED <<conn, connUp, wire, srvAuth, srvPending, srvSubs, isAuthenticated,
                   receiveCancelled, rcvMsg, activeReceiversNum,
                   activeReceivers, resultClosed, activeReceiversMtx,
                   subscriptions, recSubs, recInterval, ssPc, ssId, fwd, fwdMsg,
                   outputChan, chanClosed, chanReturned, delivered, hcPc, closeCalled, closedAgain,
                   subCtxDone, drops, emitted, handled, replayed, panicked>>
    /\ UNCHANGED notClient

CanRead(t) == Running /\ rcvPc = "read" /\ connUp /\ wire # <<>> /\ Head(wire).type \in t

\* auth_required: authenticate() writes the auth message.
RcvAuthRequired ==
    /\ CanRead({"auth_required"})
    /\ wire' = Tail(wire)
    /\ srvAuth' = "authed"
    /\ rcvPc' = "select"
    /\ UNCHANGED <<conn, connUp, srvPending, srvSubs, isAuthenticated,
                   receiveCancelled, rcvMsg, activeReceiversNum,
                   activeReceivers, resultClosed, activeReceiversMtx, isReconnecting,
                   subscriptions, recPc, recSubs, recInterval, ssPc, ssId, fwd, fwdMsg,
                   outputChan, chanClosed, chanReturned, delivered, hcPc, closeCalled, closedAgain,
                   subCtxDone, drops, emitted, handled, replayed, panicked>>
    /\ UNCHANGED notClient

RcvAuthOK ==
    /\ CanRead({"auth_ok"})
    /\ wire' = Tail(wire)
    /\ isAuthenticated' = TRUE
    /\ rcvPc' = "select"
    /\ UNCHANGED <<conn, connUp, srvAuth, srvPending, srvSubs,
                   receiveCancelled, rcvMsg, activeReceiversNum,
                   activeReceivers, resultClosed, activeReceiversMtx, isReconnecting,
                   subscriptions, recPc, recSubs, recInterval, ssPc, ssId, fwd, fwdMsg,
                   outputChan, chanClosed, chanReturned, delivered, hcPc, closeCalled, closedAgain,
                   subCtxDone, drops, emitted, handled, replayed, panicked>>
    /\ UNCHANGED notClient

\* The source sends a message that answers no request: a result with id 0.
SrvUnsolicited ==
    /\ CanSend /\ srvAuth = "ok"
    /\ wire' = Append(wire, ResultMessage(0, TRUE))
    /\ UNCHANGED <<conn, connUp, srvAuth, srvPending, srvSubs, isAuthenticated,
                   receiveCancelled, rcvPc, rcvMsg, activeReceiversNum,
                   activeReceivers, resultClosed, activeReceiversMtx, isReconnecting,
                   subscriptions, recPc, recSubs, recInterval, ssPc, ssId, fwd, fwdMsg,
                   outputChan, chanClosed, chanReturned, delivered, hcPc, closeCalled, closedAgain,
                   subCtxDone, drops, emitted, handled, replayed, panicked>>
    /\ UNCHANGED notClient

\* Mutant of RcvHandleNoId: after a message without an id the loop returns.
RcvHandleNoIdReturn ==
    /\ CanRead({"result", "event"})
    /\ Head(wire).id = 0
    /\ wire' = Tail(wire)
    /\ rcvPc' = "exited"
    /\ UNCHANGED <<conn, connUp, srvAuth, srvPending, srvSubs, isAuthenticated,
                   receiveCancelled, rcvMsg, activeReceiversNum,
                   activeReceivers, resultClosed, activeReceiversMtx, isReconnecting,
                   subscriptions, recPc, recSubs, recInterval, ssPc, ssId, fwd, fwdMsg,
                   outputChan, chanClosed, chanReturned, delivered, hcPc, closeCalled, closedAgain,
                   subCtxDone, drops, emitted, handled, replayed, panicked>>
    /\ UNCHANGED notClient

\* handleMessage for a message whose id is 0: it returns before it takes
\* activeReceiversMtx; the loop goes on.
RcvHandleNoId ==
    /\ CanRead({"result", "event"})
    /\ Head(wire).id = 0
    /\ wire' = Tail(wire)
    /\ rcvPc' = "select"
    /\ UNCHANGED <<conn, connUp, srvAuth, srvPending, srvSubs, isAuthenticated,
                   receiveCancelled, rcvMsg, activeReceiversNum,
                   activeReceivers, resultClosed, activeReceiversMtx, isReconnecting,
                   subscriptions, recPc, recSubs, recInterval, ssPc, ssId, fwd, fwdMsg,
                   outputChan, chanClosed, chanReturned, delivered, hcPc, closeCalled, closedAgain,
                   subCtxDone, drops, emitted, handled, replayed, panicked>>
    /\ UNCHANGED notClient

\* handleMessage for an id that is not registered: the message is dropped.
RcvHandleUnknown ==
    /\ CanRead({"result", "event"}) /\ activeReceiversMtx = "free"
    /\ Head(wire).id # 0 /\ Head(wire).id \notin activeReceivers
    /\ wire' = Tail(wire)
    /\ rcvPc' = "select"
    /\ UNCHANGED <<conn, connUp, srvAuth, srvPending, srvSubs, isAuthenticated,
                   receiveCancelled, rcvMsg, activeReceiversNum,
                   activeReceivers, resultClosed, activeReceiversMtx, isReconnecting,
                   subscriptions, recPc, recSubs, recInterval, ssPc, ssId, fwd, fwdMsg,
                   outputChan, chanClosed, chanReturned, delivered, hcPc, closeCalled, closedAgain,
                   subCtxDone, drops, emitted, handled, replayed, panicked>>
    /\ UNCHANGED notClient

\* handleMessage for a registered id: it takes activeReceiversMtx and starts the
\* send on the unbuffered result channel, holding the mutex until the send is
\* taken.
RcvHandleMessage ==
    /\ CanRead({"result", "event"}) /\ activeReceiversMtx = "free"
    /\ Head(wire).id \in activeReceivers
    /\ wire' = Tail(wire)
    /\ rcvMsg' = Head(wire)
    /\ activeReceiversMtx' = "recv"
    /\ rcvPc' = "send"
    /\ UNCHANGED <<conn, connUp, srvAuth, srvPending, srvSubs, isAuthenticated,
                   receiveCancelled, activeReceiversNum,
                   activeReceivers, resultClosed, isReconnecting,
                   subscriptions, recPc, recSubs, recInterval, ssPc, ssId, fwd, fwdMsg,
                   outputChan, chanClosed, chanReturned, delivered, hcPc, closeCalled, closedAgain,
                   subCtxDone, drops, emitted, handled, replayed, panicked>>
    /\ UNCHANGED notClient

\* ---- startSubscription, run by SubscribeEvents or by the reconnect goroutine ----
Remove(s, ch) == SelectSeq(s, LAMBDA x : x # ch)

\* Mutant of OnRestoreError: a failed restore closes the output channel.
OnRestoreErrorClose(closed) == TRUE

\* What reconnect does to the output channel of a subscription it failed to
\* restore: it logs the error and leaves the channel as it is.
OnRestoreError(closed) == closed

\* The return of startSubscription to its caller.  SubscribeEvents hands the
\* channel out on success; on failure it removes the subscription, closes the
\* channel and returns the error.  reconnect goes on to its next subscription.
SsReturn(p, ok, id) ==
    /\ ssPc' = [ssPc EXCEPT ![p] = "none"]
    /\ ssId' = [ssId EXCEPT ![p] = 0]
    /\ IF p = "caller"
       THEN /\ UNCHANGED <<recPc, recSubs, replayed>>
            /\ IF ok
               THEN /\ chanReturned' = TRUE /\ hcPc' = "subscribed"
                    /\ UNCHANGED <<subscriptions, chanClosed, panicked>>
               ELSE /\ hcPc' = "failed"
                    /\ subscriptions' = Remove(subscriptions, TheChan)
                    /\ IF chanClosed
                       THEN panicked' = "close of closed channel"
                            /\ UNCHANGED chanClosed
                       ELSE chanClosed' = TRUE /\ UNCHANGED panicked
                    /\ UNCHANGED chanReturned
       ELSE /\ recSubs' = Tail(recSubs)
            /\ recPc' = "restore"
            /\ replayed' = IF ok THEN replayed \cup {id} ELSE replayed
            /\ chanClosed' = IF ok THEN chanClosed ELSE OnRestoreError(chanClosed)
            /\ UNCHANGED <<hcPc, chanReturned, subscriptions, panicked>>

SsCalled(p) ==
    /\ Running /\ ssPc[p] = "none" /\ activeReceiversMtx = "free"
    /\ activeReceiversNum < MaxIds
    /\ IF p = "caller" THEN hcPc = "subscribing"
                       ELSE recPc = "restore" /\ recSubs # <<>>

\* Mutant of SsBegin: the counter is read and not incremented.
SsBeginNoIncrement(p) ==
    /\ SsCalled(p)
    /\ activeReceiversNum' = activeReceiversNum
    /\ srvPending' = IF connUp THEN srvPending \cup {activeReceiversNum}
                               ELSE srvPending
    /\ activeReceivers' = activeReceivers \cup {activeReceiversNum}
    /\ ssPc' = [ssPc EXCEPT ![p] = "wait"]
    /\ ssId' = [ssId EXCEPT ![p] = activeReceiversNum]
    /\ recPc' = IF p = "reconn" THEN "sub" ELSE recPc
    /\ UNCHANGED <<conn, connUp, wire, srvAuth, srvSubs, isAuthenticated,
                   receiveCancelled, rcvPc, rcvMsg, resultClosed, activeReceiversMtx,
                   isReconnecting, subscriptions, recSubs, recInterval, fwd, fwdMsg,
                   outputChan, chanClosed, chanReturned, delivered, hcPc, closeCalled, closedAgain,
                   subCtxDone, drops, emitted, handled, replayed, panicked>>
    /\ UNCHANGED notClient

\* Under activeReceiversMtx: the next id is taken, the subscribe request is
\* written and the result channel is registered.  On a connection that is down
\* the write may still be accepted by the transport; the request is then lost.
SsBegin(p) ==
    /\ SsCalled(p)
    /\ activeReceiversNum' = activeReceiversNum + 1
    /\ srvPending' = IF connUp THEN srvPending \cup {activeReceiversNum + 1}
                               ELSE srvPending
    /\ activeReceivers' = activeReceivers \cup {activeReceiversNum + 1}
    /\ ssPc' = [ssPc EXCEPT ![p] = "wait"]
    /\ ssId' = [ssId EXCEPT ![p] = activeReceiversNum + 1]
    /\ recPc' = IF p = "reconn" THEN "sub" ELSE recPc
    /\ UNCHANGED <<conn, connUp, wire, srvAuth, srvSubs, isAuthenticated,
                   receiveCancelled, rcvPc, rcvMsg, resultClosed, activeReceiversMtx,
                   isReconnecting, subscriptions, recSubs, recInterval, fwd, fwdMsg,
                   outputChan, chanClosed, chanReturned, delivered, hcPc, closeCalled, closedAgain,
                   subCtxDone, drops, emitted, handled, replayed, panicked>>
    /\ UNCHANGED notClient

\* WriteMessage fails: startSubscription returns the error, nothing registered.
SsWriteFail(p) ==
    /\ SsCalled(p) /\ ~connUp
    /\ activeReceiversNum' = activeReceiversNum + 1
    /\ SsReturn(p, FALSE, activeReceiversNum + 1)
    /\ UNCHANGED <<conn, connUp, wire, srvAuth, srvPending, srvSubs, isAuthenticated,
                   receiveCancelled, rcvPc, rcvMsg, activeReceivers, resultClosed,
                   activeReceiversMtx, isReconnecting, recInterval, fwd, fwdMsg,
                   outputChan, delivered, closeCalled, closedAgain,
                   subCtxDone, drops, emitted, handled>>
    /\ UNCHANGED notClient

\* The select takes timeoutCtx.Done(): the acknowledgement timeout has fired or
\* ctx is cancelled.  closeReceiver comes next.
SsTimeout(p) ==
    /\ Running /\ ssPc[p] = "wait"
    /\ ssPc' = [ssPc EXCEPT ![p] = "timeout"]
    /\ UNCHANGED <<conn, connUp, wire, srvAuth, srvPending, srvSubs, isAuthenticated,
                   receiveCancelled, rcvPc, rcvMsg, activeReceiversNum,
                   activeReceivers, resultClosed, activeReceiversMtx, isReconnecting,
                   subscriptions, recPc, recSubs, recInterval, ssId, fwd, fwdMsg,
                   outputChan, chanClosed, chanReturned, delivered, hcPc, closeCalled, closedAgain,
                   subCtxDone, drops, emitted, handled, replayed, panicked>>
    /\ UNCHANGED notClient

\* The select takes the message handleMessage is sending.  A successful result
\* starts the forwarder and returns nil; anything else leads to closeReceiver.
SsResult(p) ==
    /\ Running /\ ssPc[p] = "wait" /\ rcvPc = "send" /\ rcvMsg.id = ssId[p]
    /\ activeReceiversMtx' = "free" /\ rcvPc' = "select" /\ rcvMsg' = NoMsg
    /\ IF rcvMsg.type = "result" /\ rcvMsg.success
       THEN /\ fwd' = [fwd EXCEPT ![ssId[p]] = "wait"]
            /\ SsReturn(p, TRUE, ssId[p])
       ELSE /\ ssPc' = [ssPc EXCEPT ![p] = "reject"]
            /\ UNCHANGED <<fwd, ssId, hcPc, chanReturned, subscriptions, chanClosed,
                           panicked, recPc, recSubs, replayed>>
    /\ UNCHANGED <<conn, connUp, wire, srvAuth, srvPending, srvSubs, isAuthenticated,
                   receiveCancelled, activeReceiversNum, activeReceivers, resultClosed,
                   isReconnecting, recInterval, fwdMsg,
                   outputChan, delivered, closeCalled, closedAgain,
                   subCtxDone, drops, emitted, handled>>
    /\ UNCHANGED notClient

\* closeReceiver after a timeout or a rejected subscription, then the return of
\* the error.
SsCloseReceiver(p) ==
    /\ Running /\ ssPc[p] \in {"timeout", "reject"} /\ activeReceiversMtx = "free"
    /\ IF ssId[p] \in activeReceivers
       THEN /\ resultClosed' = resultClosed \cup {ssId[p]}
            /\ activeReceivers' = activeReceivers \ {ssId[p]}
       ELSE UNCHANGED <<resultClosed, activeReceivers>>
    /\ SsReturn(p, FALSE, ssId[p])
    /\ UNCHANGED <<conn, connUp, wire, srvAuth, srvPending, srvSubs, isAuthenticated,
                   receiveCancelled, rcvPc, rcvMsg, activeReceiversNum,
                   activeReceiversMtx, isReconnecting, recInterval, fwd, fwdMsg,
                   outputChan, delivered, closeCalled, closedAgain,
                   subCtxDone, drops, emitted, handled>>
    /\ UNCHANGED notClient

\* ---- the forwarder goroutine of a subscription ----
\* The outer select takes ctx.Done(); closeReceiver comes next.
FwdCtxDone(i) ==
    /\ Running /\ fwd[i] = "wait" /\ subCtxDone
    /\ fwd' = [fwd EXCEPT ![i] = "closing"]
    /\ UNCHANGED <<conn, connUp, wire, srvAuth, srvPending, srvSubs, isAuthenticated,
                   receiveCancelled, rcvPc, rcvMsg, activeReceiversNum,
                   activeReceivers, resultClosed, activeReceiversMtx, isReconnecting,
                   subscriptions, recPc, recSubs, recInterval, ssPc, ssId, fwdMsg,
                   outputChan, chanClosed, chanReturned, delivered, hcPc, closeCalled, closedAgain,
                   subCtxDone, drops, emitted, handled, replayed, panicked>>
    /\ UNCHANGED notClient

FwdCloseReceiver(i) ==
    /\ Running /\ fwd[i] = "closing" /\ activeReceiversMtx = "free"
    /\ IF i \in activeReceivers
       THEN /\ resultClosed' = resultClosed \cup {i}
            /\ activeReceivers' = activeReceivers \ {i}
       ELSE UNCHANGED <<resultClosed, activeReceivers>>
    /\ fwd' = [fwd EXCEPT ![i] = "done"]
    /\ UNCHANGED <<conn, connUp, wire, srvAuth, srvPending, srvSubs, isAuthenticated,
                   receiveCancelled, rcvPc, rcvMsg, activeReceiversNum,
                   activeReceiversMtx, isReconnecting,
                   subscriptions, recPc, recSubs, recInterval, ssPc, ssId, fwdMsg,
                   outputChan, chanClosed, chanReturned, delivered, hcPc, closeCalled, closedAgain,
                   subCtxDone, drops, emitted, handled, replayed, panicked>>
    /\ UNCHANGED notClient

\* The outer select takes the message handleMessage is sending.  Only event
\* messages go on to the output channel.
FwdRecv(i) ==
    /\ Running /\ fwd[i] = "wait" /\ rcvPc = "send" /\ rcvMsg.id = i
    /\ activeReceiversMtx' = "free" /\ rcvPc' = "select" /\ rcvMsg' = NoMsg
    /\ IF rcvMsg.type = "event"
       THEN /\ fwd' = [fwd EXCEPT ![i] = "send"]
            /\ fwdMsg' = [fwdMsg EXCEPT ![i] = rcvMsg.n]
            /\ handled' = handled \cup {rcvMsg.n}
       ELSE UNCHANGED <<fwd, fwdMsg, handled>>
    /\ UNCHANGED <<conn, connUp, wire, srvAuth, srvPending, srvSubs, isAuthenticated,
                   receiveCancelled, activeReceiversNum,
                   activeReceivers, resultClosed, isReconnecting,
                   subscriptions, recPc, recSubs, recInterval, ssPc, ssId,
                   outputChan, chanClosed, chanReturned, delivered, hcPc, closeCalled, closedAgain,
                   subCtxDone, drops, emitted, replayed, panicked>>
    /\ UNCHANGED notClient

\* Mutant of FwdSend: after the send the forwarder stays at the send, with the
\* same event.
FwdSendAgain(i) ==
    /\ Running /\ fwd[i] = "send" /\ ~chanClosed
    /\ Len(outputChan) < OutputChanCap
    /\ outputChan' = Append(outputChan, fwdMsg[i])
    /\ UNCHANGED <<conn, connUp, wire, srvAuth, srvPending, srvSubs, isAuthenticated,
                   receiveCancelled, rcvPc, rcvMsg, activeReceiversNum,
                   activeReceivers, resultClosed, activeReceiversMtx, isReconnecting,
                   subscriptions, recPc, recSubs, recInterval, ssPc, ssId, fwd, fwdMsg,
                   chanClosed, chanReturned, delivered, hcPc, closeCalled, closedAgain,
                   subCtxDone, drops, emitted, handled, replayed, panicked>>
    /\ UNCHANGED notClient

\* The inner select takes the send on the output channel; a send on a closed
\* channel panics.
FwdSend(i) ==
    /\ Running /\ fwd[i] = "send"
    /\ IF chanClosed
       THEN /\ panicked' = "send on closed channel"
            /\ UNCHANGED <<outputChan, fwd, fwdMsg>>
       ELSE /\ Len(outputChan) < OutputChanCap
            /\ outputChan' = Append(outputChan, fwdMsg[i])
            /\ fwd' = [fwd EXCEPT ![i] = "wait"]
            /\ fwdMsg' = [fwdMsg EXCEPT ![i] = 0 - fwdMsg[i]]
            /\ UNCHANGED panicked
    /\ UNCHANGED <<conn, connUp, wire, srvAuth, srvPending, srvSubs, isAuthenticated,
                   receiveCancelled, rcvPc, rcvMsg, activeReceiversNum,
                   activeReceivers, resultClosed, activeReceiversMtx, isReconnecting,
                   subscriptions, recPc, recSubs, recInterval, ssPc, ssId,
                   chanClosed, chanReturned, delivered, hcPc, closeCalled, closedAgain,
                   subCtxDone, drops, emitted, handled, replayed>>
    /\ UNCHANGED notClient

\* The inner select takes ctx.Done(): the forwarder returns, the event is lost
\* and the receiver stays registered.
FwdSendCtxDone(i) ==
    /\ Running /\ fwd[i] = "send" /\ subCtxDone
    /\ fwd' = [fwd EXCEPT ![i] = "done"]
    /\ UNCHANGED <<conn, connUp, wire, srvAuth, srvPending, srvSubs, isAuthenticated,
                   receiveCancelled, rcvPc, rcvMsg, activeReceiversNum,
                   activeReceivers, resultClosed, activeReceiversMtx, isReconnecting,
                   subscriptions, recPc, recSubs, recInterval, ssPc, ssId, fwdMsg,
                   outputChan, chanClosed, chanReturned, delivered, hcPc, closeCalled, closedAgain,
                   subCtxDone, drops, emitted, handled, replayed, panicked>>
    /\ UNCHANGED notClient

\* ---- the reconnect goroutine ----
\* It closes the current connection and copies c.subscriptions.
RecStart ==
    /\ Running /\ recPc = "start"
    /\ connUp' = FALSE /\ wire' = <<>> /\ srvPending' = {} /\ srvSubs' = {}
    /\ recSubs' = subscriptions
    /\ recInterval' = ReconnectInterval
    /\ recPc' = "dial"
    /\ UNCHANGED <<conn, srvAuth, isAuthenticated,
                   receiveCancelled, rcvPc, rcvMsg, activeReceiversNum,
                   activeReceivers, resultClosed, activeReceiversMtx, isReconnecting,
                   subscriptions, ssPc, ssId, fwd, fwdMsg,
                   outputChan, chanClosed, chanReturned, delivered, hcPc, closeCalled, closedAgain,
                   subCtxDone, drops, emitted, handled, replayed, panicked>>
    /\ UNCHANGED notClient

\* time.Duration(float64(interval) * factor), capped at the maximal interval
NextInterval(i) ==
    LET n == (i * BackoffFactor[1]) \div BackoffFactor[2]
    IN  IF n > MaxReconnectInterval THEN MaxReconnectInterval ELSE n

\* Connect fails: sleep, increase the interval, try again.
RecDialFail ==
    /\ Running /\ recPc = "dial"
    /\ recInterval' = NextInterval(recInterval)
    /\ UNCHANGED <<conn, connUp, wire, srvAuth, srvPending, srvSubs, isAuthenticated,
                   receiveCancelled, rcvPc, rcvMsg, activeReceiversNum,
                   activeReceivers, resultClosed, activeReceiversMtx, isReconnecting,
                   subscriptions, recPc, recSubs, ssPc, ssId, fwd, fwdMsg,
                   outputChan, chanClosed, chanReturned, delivered, hcPc, closeCalled, closedAgain,
                   subCtxDone, drops, emitted, handled, replayed, panicked>>
    /\ UNCHANGED notClient

\* Connect succeeds.  The interval is not used again by this goroutine.
RecConnect ==
    /\ Running /\ recPc = "dial"
    /\ ConnectOK
    /\ recPc' = "auth"
    /\ recInterval' = ReconnectInterval
    /\ UNCHANGED <<rcvMsg, activeReceiversNum, activeReceivers, resultClosed,
                   activeReceiversMtx, isReconnecting, subscriptions, recSubs,
                   ssPc, ssId, fwd, fwdMsg, outputChan, chanClosed,
                   chanReturned, delivered, hcPc, closeCalled, closedAgain, subCtxDone,
                   drops, emitted, handled, replayed, panicked>>
    /\ UNCHANGED notClient

\* WaitAuthenticated(context.Background()) returns once isAuthenticated is set.
RecWaitAuthenticated ==
    /\ Running /\ recPc = "auth"
    /\ WaitAuthenticated(isAuthenticated, FALSE) = "nil"
    /\ recPc' = "restore"
    /\ UNCHANGED <<conn, connUp, wire, srvAuth, srvPending, srvSubs, isAuthenticated,
                   receiveCancelled, rcvPc, rcvMsg, activeReceiversNum,
                   activeReceivers, resultClosed, activeReceiversMtx, isReconnecting,
                   subscriptions, recSubs, recInterval, ssPc, ssId, fwd, fwdMsg,
                   outputChan, chanClosed, chanReturned, delivered, hcPc, closeCalled, closedAgain,
                   subCtxDone, drops, emitted, handled, replayed, panicked>>
    /\ UNCHANGED notClient

\* Every copied subscription has been tried: the goroutine returns and its
\* deferred function clears isReconnecting.
RecDone ==
    /\ Running /\ recPc = "restore" /\ recSubs = <<>>
    /\ isReconnecting' = FALSE
    /\ recPc' = "idle"
    /\ UNCHANGED <<conn, connUp, wire, srvAuth, srvPending, srvSubs, isAuthenticated,
                   receiveCancelled, rcvPc, rcvMsg, activeReceiversNum,
                   activeReceivers, resultClosed, activeReceiversMtx,
                   subscriptions, recSubs, recInterval, ssPc, ssId, fwd, fwdMsg,
                   outputChan, chanClosed, chanReturned, delivered, hcPc, closeCalled, closedAgain,
                   subCtxDone, drops, emitted, handled, replayed, panicked>>
    /\ UNCHANGED notClient

ClientNext ==
    \/ HcConnect
    \/ HcConnectFail
    \/ HcWaitAuthenticated
    \/ HcSubscribeEvents
    \/ HcCtxCancel
    \/ HcClose
    \/ HcCloseAgain
    \/ HcConsume
    \/ SrvAuthRequired
    \/ SrvAuthOK
    \/ SrvResult
    \/ SrvEvent
    \/ ConnLoss
    \/ RcvSelect
    \/ RcvReadError
    \/ RcvAuthRequired
    \/ RcvAuthOK
    \/ RcvHandleUnknown
    \/ RcvHandleMessage
    \/ \E p \in Callers : SsBegin(p)
    \/ \E p \in Callers : SsWriteFail(p)
    \/ \E p \in Callers : SsTimeout(p)
    \/ \E p \in Callers : SsResult(p)
    \/ \E p \in Callers : SsCloseReceiver(p)
    \/ \E i \in Ids : FwdCtxDone(i)
    \/ \E i \in Ids : FwdCloseReceiver(i)
    \/ \E i \in Ids : FwdRecv(i)
    \/ \E i \in Ids : FwdSend(i)
    \/ \E i \in Ids : FwdSendCtxDone(i)
    \/ RecStart
    \/ RecDialFail
    \/ RecConnect
    \/ RecWaitAuthenticated
    \/ RecDone

\* The client with a source that also sends messages without an id.
UnsolicitedNext ==
    \/ ClientNext
    \/ SrvUnsolicited
    \/ RcvHandleNoId

(***************************************************************************)
(* The session alone: connection, handshake, losses and reconnection of a  *)
(* client without subscriptions, with a source that may refuse the         *)
(* credentials and connections that may be lost before they are            *)
(* authenticated.                                                          *)
(***************************************************************************)
\* The source refuses the credentials it received.
SrvAuthInvalid ==
    /\ CanSend /\ srvAuth = "authed"
    /\ wire' = Append(wire, AuthInvalidMessage)
    /\ srvAuth' = "invalid"
    /\ UNCHANGED <<conn, connUp, srvPending, srvSubs, isAuthenticated, receiveCancelled,
                   rcvPc, rcvMsg, activeReceiversNum, activeReceivers, resultClosed,
                   activeReceiversMtx, isReconnecting, subscriptions, recPc, recSubs,
                   recInterval, ssPc, ssId, fwd, fwdMsg, outputChan, chanClosed,
                   chanReturned, delivered, hcPc, closeCalled, closedAgain, subCtxDone,
                   drops, emitted, handled, replayed, panicked>>
    /\ UNCHANGED notClient

\* Mutant of RcvAuthInvalid: on auth_invalid the client sends its credentials
\* again.
RcvAuthInvalidRetry ==
    /\ CanRead({"auth_invalid"})
    /\ wire' = Tail(wire)
    /\ srvAuth' = "authed"
    /\ rcvPc' = "select"
    /\ UNCHANGED <<conn, connUp, srvPending, srvSubs, isAuthenticated, receiveCancelled,
                   rcvMsg, activeReceiversNum, activeReceivers, resultClosed,
                   activeReceiversMtx, isReconnecting, subscriptions, recPc, recSubs,
                   recInterval, ssPc, ssId, fwd, fwdMsg, outputChan, chanClosed,
                   chanReturned, delivered, hcPc, closeCalled, closedAgain, subCtxDone,
                   drops, emitted, handled, replayed, panicked>>
    /\ UNCHANGED notClient

\* auth_invalid: the refusal is logged, nothing else happens.
RcvAuthInvalid ==
    /\ CanRead({"auth_invalid"})
    /\ wire' = Tail(wire)
    /\ rcvPc' = "select"
    /\ UNCHANGED <<conn, connUp, srvAuth, srvPending, srvSubs, isAuthenticated,
                   receiveCancelled, rcvMsg, activeReceiversNum, activeReceivers,
                   resultClosed, activeReceiversMtx, isReconnecting, subscriptions,
                   recPc, recSubs, recInterval, ssPc, ssId, fwd, fwdMsg, outputChan,
                   chanClosed, chanReturned, delivered, hcPc, closeCalled, closedAgain,
                   subCtxDone, drops, emitted, handled, replayed, panicked>>
    /\ UNCHANGED notClient

\* A connection that is not authenticated yet is lost.
ConnLossEarly ==
    /\ Running /\ conn # 0 /\ connUp /\ ~isAuthenticated
    /\ Len(drops) < MaxDrops + MaxEarlyDrops
    /\ connUp' = FALSE /\ wire' = <<>> /\ srvPending' = {} /\ srvSubs' = {}
    /\ drops' = Append(drops, chanReturned /\ ~chanClosed)
    /\ UNCHANGED <<conn, srvAuth, isAuthenticated, receiveCancelled, rcvPc, rcvMsg,
                   activeReceiversNum, activeReceivers, resultClosed, activeReceiversMtx,
                   isReconnecting, subscriptions, recPc, recSubs, recInterval, ssPc,
                   ssId, fwd, fwdMsg, outputChan, chanClosed, chanReturned, delivered,
                   hcPc, closeCalled, closedAgain, subCtxDone, emitted, handled,
                   replayed, panicked>>
    /\ UNCHANGED notClient

SessionNext ==
    \/ HcConnect
    \/ HcConnectFail
    \/ HcWaitAuthenticated
    \/ HcCtxCancel
    \/ HcClose
    \/ HcCloseAgain
    \/ SrvAuthRequired
    \/ SrvAuthOK
    \/ SrvAuthInvalid
    \/ ConnLoss
    \/ ConnLossEarly
    \/ RcvSelect
    \/ RcvReadError
    \/ RcvAuthRequired
    \/ RcvAuthOK
    \/ RcvAuthInvalid
    \/ RecStart
    \/ RecDialFail
    \/ RecConnect
    \/ RecWaitAuthenticated
    \/ RecDone

(***************************************************************************)
(* Client.GetStates: one call, by a caller that is connected and           *)
(* authenticated.  It shares activeReceiversNum, activeReceivers and the   *)
(* mutex with startSubscription.                                          *)
(***************************************************************************)
GetStatesInit == gsPc = "none" /\ gsId = 0 /\ gsResult = "" /\ gsAsked = 0

GsCalled ==
    /\ Running /\ gsPc = "none" /\ hcPc = "ready" /\ activeReceiversMtx = "free"
    /\ activeReceiversNum < MaxIds

\* Under activeReceiversMtx: the next id is taken, the get_states request is
\* written and the result channel is registered.  On a connection that is down
\* the write may still be accepted by the transport; the request is then lost.
GsBegin ==
    /\ GsCalled
    /\ activeReceiversNum' = activeReceiversNum + 1
    /\ activeReceivers' = activeReceivers \cup {activeReceiversNum + 1}
    /\ gsId' = activeReceiversNum + 1
    /\ gsAsked' = IF connUp THEN activeReceiversNum + 1 ELSE gsAsked
    /\ gsPc' = "wait"
    /\ UNCHANGED <<conn, connUp, wire, srvAuth, srvPending, srvSubs, isAuthenticated,
                   receiveCancelled, rcvPc, rcvMsg, resultClosed, activeReceiversMtx,
                   isReconnecting, subscriptions, recPc, recSubs, recInterval, ssPc,
                   ssId, fwd, fwdMsg, outputChan, chanClosed, chanReturned, delivered,
                   hcPc, closeCalled, closedAgain, subCtxDone, drops, emitted, handled,
                   replayed, panicked>>
    /\ UNCHANGED <<gsResult>>
    /\ UNCHANGED notSession

\* WriteMessage fails: GetStates returns the error, nothing is registered.
GsWriteFail ==
    /\ GsCalled /\ ~connUp
    /\ activeReceiversNum' = activeReceiversNum + 1
    /\ gsId' = activeReceiversNum + 1
    /\ gsPc' = "returned" /\ gsResult' = "write"
    /\ UNCHANGED <<conn, connUp, wire, srvAuth, srvPending, srvSubs, isAuthenticated,
                   receiveCancelled, rcvPc, rcvMsg, activeReceivers, resultClosed,
                   activeReceiversMtx, isReconnecting, subscriptions, recPc, recSubs,
                   recInterval, ssPc, ssId, fwd, fwdMsg, outputChan, chanClosed,
                   chanReturned, delivered, hcPc, closeCalled, closedAgain, subCtxDone,
                   drops, emitted, handled, replayed, panicked>>
    /\ UNCHANGED <<gsAsked>>
    /\ UNCHANGED notSession

\* The source answers the get_states request, with success or with an error.
SrvStates ==
    /\ CanSend /\ gsAsked # 0
    /\ \E ok \in BOOLEAN : wire' = Append(wire, ResultMessage(gsAsked, ok))
    /\ gsAsked' = 0
    /\ UNCHANGED <<conn, connUp, srvAuth, srvPending, srvSubs, isAuthenticated,
                   receiveCancelled, rcvPc, rcvMsg, activeReceiversNum, activeReceivers,
                   resultClosed, activeReceiversMtx, isReconnecting, subscriptions,
                   recPc, recSubs, recInterval, ssPc, ssId, fwd, fwdMsg, outputChan,
                   chanClosed, chanReturned, delivered, hcPc, closeCalled, closedAgain,
                   subCtxDone, drops, emitted, handled, replayed, panicked>>
    /\ UNCHANGED <<gsPc, gsId, gsResult>>
    /\ UNCHANGED notSession

\* The select takes timeoutCtx.Done(); closeReceiver comes next.
GsTimeout ==
    /\ Running /\ gsPc = "wait"
    /\ gsPc' = "timeout"
    /\ UNCHANGED <<conn, connUp, wire, srvAuth, srvPending, srvSubs, isAuthenticated,
                   receiveCancelled, rcvPc, rcvMsg, activeReceiversNum, activeReceivers,
                   resultClosed, activeReceiversMtx, isReconnecting, subscriptions,
                   recPc, recSubs, recInterval, ssPc, ssId, fwd, fwdMsg, outputChan,
                   chanClosed, chanReturned, delivered, hcPc, closeCalled, closedAgain,
                   subCtxDone, drops, emitted, handled, replayed, panicked>>
    /\ UNCHANGED <<gsId, gsResult, gsAsked>>
    /\ UNCHANGED notSession

\* What GetStates does to c.activeReceivers when the result it received is a
\* success: nothing, it parses the states and returns.
OnStates(registered, id) == registered

\* The select takes the message handleMessage is sending.  A successful result
\* is parsed and returned (the parsing may fail); a failure leads to
\* closeReceiver.
GsResult ==
    /\ Running /\ gsPc = "wait" /\ rcvPc = "send" /\ rcvMsg.id = gsId
    /\ activeReceiversMtx' = "free" /\ rcvPc' = "select" /\ rcvMsg' = NoMsg
    /\ IF rcvMsg.type = "result" /\ rcvMsg.success
       THEN /\ gsPc' = "returned"
            /\ gsResult' \in {"states", "parse"}
            /\ activeReceivers' = OnStates(activeReceivers, gsId)
       ELSE /\ gsPc' = "reject"
            /\ UNCHANGED <<gsResult, activeReceivers>>
    /\ UNCHANGED <<conn, connUp, wire, srvAuth, srvPending, srvSubs, isAuthenticated,
                   receiveCancelled, activeReceiversNum, resultClosed, isReconnecting,
                   subscriptions, recPc, recSubs, recInterval, ssPc, ssId, fwd, fwdMsg,
                   outputChan, chanClosed, chanReturned, delivered, hcPc, closeCalled,
                   closedAgain, subCtxDone, drops, emitted, handled, replayed, panicked>>
    /\ UNCHANGED <<gsId, gsAsked>>
    /\ UNCHANGED notSession

\* closeReceiver after the timeout or a failure response, then the return of
\* the error.
GsCloseReceiver ==
    /\ Running /\ gsPc \in {"timeout", "reject"} /\ activeReceiversMtx = "free"
    /\ IF gsId \in activeReceivers
       THEN /\ resultClosed' = resultClosed \cup {gsId}
            /\ activeReceivers' = activeReceivers \ {gsId}
       ELSE UNCHANGED <<resultClosed, activeReceivers>>
    /\ gsPc' = "returned" /\ gsResult' = "failed"
    /\ UNCHANGED <<conn, connUp, wire, srvAuth, srvPending, srvSubs, isAuthenticated,
                   receiveCancelled, rcvPc, rcvMsg, activeReceiversNum,
                   activeReceiversMtx, isReconnecting, subscriptions, recPc, recSubs,
                   recInterval, ssPc, ssId, fwd, fwdMsg, outputChan, chanClosed,
                   chanReturned, delivered, hcPc, closeCalled, closedAgain, subCtxDone,
                   drops, emitted, handled, replayed, panicked>>
    /\ UNCHANGED <<gsId, gsAsked>>
    /\ UNCHANGED notSession

\* A caller that connects, waits for the authentication and calls GetStates.
GetStatesNext ==
    \/ HcConnect
    \/ HcWaitAuthenticated
    \/ HcCtxCancel
    \/ HcClose
    \/ SrvAuthRequired
    \/ SrvAuthOK
    \/ ConnLoss
    \/ RcvSelect
    \/ RcvReadError
    \/ RcvAuthRequired
    \/ RcvAuthOK
    \/ RcvHandleUnknown
    \/ RcvHandleMessage
    \/ RecStart
    \/ RecDialFail
    \/ RecConnect
    \/ RecWaitAuthenticated
    \/ RecDone
    \/ GsBegin
    \/ GsWriteFail
    \/ SrvStates
    \/ GsTimeout
    \/ GsResult
    \/ GsCloseReceiver

\* The client with one SubscribeEvents and one GetStates, which may be under
\* way together, over connection losses and reconnections.
RequestsNext ==
    \/ HcConnect
    \/ HcWaitAuthenticated
    \/ HcSubscribeEvents
    \/ HcCtxCancel
    \/ HcConsume
    \/ SrvAuthRequired
    \/ SrvAuthOK
    \/ SrvResult
    \/ SrvEvent
    \/ SrvStates
    \/ ConnLoss
    \/ RcvSelect
    \/ RcvReadError
    \/ RcvAuthRequired
    \/ RcvAuthOK
    \/ RcvHandleUnknown
    \/ RcvHandleMessage
    \/ \E p \in Callers : SsBegin(p)
    \/ \E p \in Callers : SsWriteFail(p)
    \/ \E p \in Callers : SsTimeout(p)
    \/ \E p \in Callers : SsResult(p)
    \/ \E p \in Callers : SsCloseReceiver(p)
    \/ \E i \in Ids : FwdCtxDone(i)
    \/ \E i \in Ids : FwdCloseReceiver(i)
    \/ \E i \in Ids : FwdRecv(i)
    \/ \E i \in Ids : FwdSend(i)
    \/ \E i \in Ids : FwdSendCtxDone(i)
    \/ GsBegin
    \/ GsWriteFail
    \/ GsTimeout
    \/ GsResult
    \/ GsCloseReceiver
    \/ RecStart
    \/ RecDialFail
    \/ RecConnect
    \/ RecWaitAuthenticated
    \/ RecDone

(***************************************************************************)
(* Close() and reconnect step by step.  Every critical section of          *)
(* c.reconnectMu in Close(), in reconnect and in its goroutine is two      *)
(* steps: the Lock(), and the body with the Unlock().  SubscribeEvents     *)
(* takes the mutex for sections that are single steps here; they wait      *)
(* while another goroutine holds it.                                       *)
(***************************************************************************)
CloseInit == reconnectMu = "free" /\ clPc = "idle" /\ clAt = "idle"

\* Close() is called: c.receiveCancel().
CloseBegin ==
    /\ Running /\ hcPc \notin {"new", "failed"} /\ clPc = "idle"
    /\ receiveCancelled' = TRUE
    /\ closeCalled' = TRUE
    /\ clPc' = "lock"
    /\ clAt' = recPc
    /\ UNCHANGED <<conn, connUp, wire, srvAuth, srvPending, srvSubs, isAuthenticated,
                   rcvPc, rcvMsg, activeReceiversNum, activeReceivers, resultClosed,
                   activeReceiversMtx, isReconnecting, subscriptions, recPc, recSubs,
                   recInterval, ssPc, ssId, fwd, fwdMsg, outputChan, chanClosed,
                   chanReturned, delivered, hcPc, closedAgain, subCtxDone, drops, emitted,
                   handled, replayed, panicked>>
    /\ UNCHANGED <<reconnectMu>>
    /\ UNCHANGED notClose

\* c.reconnectMu.Lock() of Close().
CloseLock ==
    /\ Running /\ clPc = "lock" /\ reconnectMu = "free"
    /\ reconnectMu' = "Close"
    /\ clPc' = "locked"
    /\ UNCHANGED <<conn, connUp, wire, srvAuth, srvPending, srvSubs, isAuthenticated,
                   receiveCancelled, rcvPc, rcvMsg, activeReceiversNum, activeReceivers,
                   resultClosed, activeReceiversMtx, isReconnecting, subscriptions, recPc,
                   recSubs, recInterval, ssPc, ssId, fwd, fwdMsg, outputChan, chanClosed,
                   chanReturned, delivered, hcPc, closeCalled, closedAgain, subCtxDone,
                   drops, emitted, handled, replayed, panicked>>
    /\ UNCHANGED <<clAt>>
    /\ UNCHANGED notClose

\* Under the mutex: every recorded output channel is closed and the
\* subscriptions are forgotten; then Unlock().
CloseChannels ==
    /\ Running /\ clPc = "locked"
    /\ IF subscriptions # <<>> /\ chanClosed
       THEN panicked' = "close of closed channel" /\ UNCHANGED chanClosed
       ELSE /\ chanClosed' = (chanClosed \/ subscriptions # <<>>)
            /\ UNCHANGED panicked
    /\ subscriptions' = <<>>
    /\ reconnectMu' = "free"
    /\ clPc' = "conn"
    /\ UNCHANGED <<conn, connUp, wire, srvAuth, srvPending, srvSubs, isAuthenticated,
                   receiveCancelled, rcvPc, rcvMsg, activeReceiversNum, activeReceivers,
                   resultClosed, activeReceiversMtx, isReconnecting, recPc, recSubs,
                   recInterval, ssPc, ssId, fwd, fwdMsg, outputChan, chanReturned,
                   delivered, hcPc, closeCalled, closedAgain, subCtxDone, drops, emitted,
                   handled, replayed>>
    /\ UNCHANGED <<clAt>>
    /\ UNCHANGED notClose

\* c.conn.Close(), and Close() returns.
CloseConn ==
    /\ Running /\ clPc = "conn"
    /\ connUp' = FALSE /\ wire' = <<>> /\ srvPending' = {} /\ srvSubs' = {}
    /\ clPc' = "returned"
    /\ UNCHANGED <<conn, srvAuth, isAuthenticated, receiveCancelled, rcvPc, rcvMsg,
                   activeReceiversNum, activeReceivers, resultClosed, activeReceiversMtx,
                   isReconnecting, subscriptions, recPc, recSubs, recInterval, ssPc, ssId,
                   fwd, fwdMsg, outputChan, chanClosed, chanReturned, delivered, hcPc,
                   closeCalled, closedAgain, subCtxDone, drops, emitted, handled, replayed,
                   panicked>>
    /\ UNCHANGED <<reconnectMu, clAt>>
    /\ UNCHANGED notClose

\* ReadMessage fails and reconnect() takes the mutex.
ReconnectLock ==
    /\ Running /\ rcvPc = "read" /\ ~connUp /\ reconnectMu = "free"
    /\ reconnectMu' = "receive"
    /\ rcvPc' = "reconnect"
    /\ UNCHANGED <<conn, connUp, wire, srvAuth, srvPending, srvSubs, isAuthenticated,
                   receiveCancelled, rcvMsg, activeReceiversNum, activeReceivers,
                   resultClosed, activeReceiversMtx, isReconnecting, subscriptions, recPc,
                   recSubs, recInterval, ssPc, ssId, fwd, fwdMsg, outputChan, chanClosed,
                   chanReturned, delivered, hcPc, closeCalled, closedAgain, subCtxDone,
                   drops, emitted, handled, replayed, panicked>>
    /\ UNCHANGED <<clPc, clAt>>
    /\ UNCHANGED notClose

\* Under the mutex: reconnect returns when a reconnection is under way, else
\* it sets isReconnecting; Unlock(); it starts the goroutine and the receive
\* loop returns.
ReconnectEnter ==
    /\ Running /\ rcvPc = "reconnect"
    /\ IF isReconnecting
       THEN UNCHANGED <<isReconnecting, recPc>>
       ELSE isReconnecting' = TRUE /\ recPc' = "start"
    /\ reconnectMu' = "free"
    /\ rcvPc' = "exited"
    /\ UNCHANGED <<conn, connUp, wire, srvAuth, srvPending, srvSubs, isAuthenticated,
                   receiveCancelled, rcvMsg, activeReceiversNum, activeReceivers,
                   resultClosed, activeReceiversMtx, subscriptions, recSubs, recInterval,
                   ssPc, ssId, fwd, fwdMsg, outputChan, chanClosed, chanReturned,
                   delivered, hcPc, closeCalled, closedAgain, subCtxDone, drops, emitted,
                   handled, replayed, panicked>>
    /\ UNCHANGED <<clPc, clAt>>
    /\ UNCHANGED notClose

\* The goroutine closes the current connection.
RecCloseConn ==
    /\ Running /\ recPc = "start"
    /\ connUp' = FALSE /\ wire' = <<>> /\ srvPending' = {} /\ srvSubs' = {}
    /\ recPc' = "lock"
    /\ UNCHANGED <<conn, srvAuth, isAuthenticated, receiveCancelled, rcvPc, rcvMsg,
                   activeReceiversNum, activeReceivers, resultClosed, activeReceiversMtx,
                   isReconnecting, subscriptions, recSubs, recInterval, ssPc, ssId, fwd,
                   fwdMsg, outputChan, chanClosed, chanReturned, delivered, hcPc,
                   closeCalled, closedAgain, subCtxDone, drops, emitted, handled, replayed,
                   panicked>>
    /\ UNCHANGED <<reconnectMu, clPc, clAt>>
    /\ UNCHANGED notClose

\* c.reconnectMu.Lock() before the copy of c.subscriptions.
RecCopyLock ==
    /\ Running /\ recPc = "lock" /\ reconnectMu = "free"
    /\ reconnectMu' = "reconnect"
    /\ recPc' = "copy"
    /\ UNCHANGED <<conn, connUp, wire, srvAuth, srvPending, srvSubs, isAuthenticated,
                   receiveCancelled, rcvPc, rcvMsg, activeReceiversNum, activeReceivers,
                   resultClosed, activeReceiversMtx, isReconnecting, subscriptions,
                   recSubs, recInterval, ssPc, ssId, fwd, fwdMsg, outputChan, chanClosed,
                   chanReturned, delivered, hcPc, closeCalled, closedAgain, subCtxDone,
                   drops, emitted, handled, replayed, panicked>>
    /\ UNCHANGED <<clPc, clAt>>
    /\ UNCHANGED notClose

\* Mutant of RecCopy: the copy is made and the mutex is kept.
RecCopyKeep ==
    /\ Running /\ recPc = "copy"
    /\ recSubs' = subscriptions
    /\ recInterval' = ReconnectInterval
    /\ recPc' = "dial"
    /\ UNCHANGED <<conn, connUp, wire, srvAuth, srvPending, srvSubs, isAuthenticated,
                   receiveCancelled, rcvPc, rcvMsg, activeReceiversNum, activeReceivers,
                   resultClosed, activeReceiversMtx, isReconnecting, subscriptions, ssPc,
                   ssId, fwd, fwdMsg, outputChan, chanClosed, chanReturned, delivered,
                   hcPc, closeCalled, closedAgain, subCtxDone, drops, emitted, handled,
                   replayed, panicked>>
    /\ UNCHANGED <<reconnectMu, clPc, clAt>>
    /\ UNCHANGED notClose

\* Under the mutex: the copy of c.subscriptions; Unlock().
RecCopy ==
    /\ Running /\ recPc = "copy"
    /\ recSubs' = subscriptions
    /\ recInterval' = ReconnectInterval
    /\ reconnectMu' = "free"
    /\ recPc' = "dial"
    /\ UNCHANGED <<conn, connUp, wire, srvAuth, srvPending, srvSubs, isAuthenticated,
                   receiveCancelled, rcvPc, rcvMsg, activeReceiversNum, activeReceivers,
                   resultClosed, activeReceiversMtx, isReconnecting, subscriptions, ssPc,
                   ssId, fwd, fwdMsg, outputChan, chanClosed, chanReturned, delivered,
                   hcPc, closeCalled, closedAgain, subCtxDone, drops, emitted, handled,
                   replayed, panicked>>
    /\ UNCHANGED <<clPc, clAt>>
    /\ UNCHANGED notClose

\* Every copied subscription has been tried: the goroutine returns and its
\* deferred function takes the mutex.
RecDoneLock ==
    /\ Running /\ recPc = "restore" /\ recSubs = <<>> /\ reconnectMu = "free"
    /\ reconnectMu' = "reconnect"
    /\ recPc' = "done"
    /\ UNCHANGED <<conn, connUp, wire, srvAuth, srvPending, srvSubs, isAuthenticated,
                   receiveCancelled, rcvPc, rcvMsg, activeReceiversNum, activeReceivers,
                   resultClosed, activeReceiversMtx, isReconnecting, subscriptions,
                   recSubs, recInterval, ssPc, ssId, fwd, fwdMsg, outputChan, chanClosed,
                   chanReturned, delivered, hcPc, closeCalled, closedAgain, subCtxDone,
                   drops, emitted, handled, replayed, panicked>>
    /\ UNCHANGED <<clPc, clAt>>
    /\ UNCHANGED notClose

\* Under the mutex: the deferred function clears isReconnecting; Unlock().
RecDoneUnlock ==
    /\ Running /\ recPc = "done"
    /\ isReconnecting' = FALSE
    /\ reconnectMu' = "free"
    /\ recPc' = "idle"
    /\ UNCHANGED <<conn, connUp, wire, srvAuth, srvPending, srvSubs, isAuthenticated,
                   receiveCancelled, rcvPc, rcvMsg, activeReceiversNum, activeReceivers,
                   resultClosed, activeReceiversMtx, subscriptions, recSubs, recInterval,
                   ssPc, ssId, fwd, fwdMsg, outputChan, chanClosed, chanReturned,
                   delivered, hcPc, closeCalled, closedAgain, subCtxDone, drops, emitted,
                   handled, replayed, panicked>>
    /\ UNCHANGED <<clPc, clAt>>
    /\ UNCHANGED notClose

\* A section of SubscribeEvents under c.reconnectMu waits for the mutex.
MuFree(p) == p = "caller" => reconnectMu = "free"

\* The client with one SubscribeEvents, connection losses, and a Close()
\* that may be called at every step of a reconnection.
CloseNext ==
    \/ HcConnect
    \/ HcWaitAuthenticated
    \/ (MuFree("caller") /\ HcSubscribeEvents)
    \/ HcCtxCancel
    \/ HcConsume
    \/ CloseBegin
    \/ CloseLock
    \/ CloseChannels
    \/ CloseConn
    \/ SrvAuthRequired
    \/ SrvAuthOK
    \/ SrvResult
    \/ SrvEvent
    \/ ConnLoss
    \/ RcvSelect
    \/ ReconnectLock
    \/ ReconnectEnter
    \/ RcvAuthRequired
    \/ RcvAuthOK
    \/ RcvHandleUnknown
    \/ RcvHandleMessage
    \/ \E p \in Callers : SsBegin(p)
    \/ \E p \in Callers : (MuFree(p) /\ SsWriteFail(p))
    \/ \E p \in Callers : (MuFree(p) /\ SsTimeout(p))
    \/ \E p \in Callers : (MuFree(p) /\ SsResult(p))
    \/ \E p \in Callers : (MuFree(p) /\ SsCloseReceiver(p))
    \/ \E i \in Ids : FwdCtxDone(i)
    \/ \E i \in Ids : FwdCloseReceiver(i)
    \/ \E i \in Ids : FwdRecv(i)
    \/ \E i \in Ids : FwdSend(i)
    \/ \E i \in Ids : FwdSendCtxDone(i)
    \/ RecCloseConn
    \/ RecCopyLock
    \/ RecCopy
    \/ RecDialFail
    \/ RecConnect
    \/ RecWaitAuthenticated
    \/ RecDoneLock
    \/ RecDoneUnlock

(***************************************************************************)
(* The orchestrator (ingestion.Pipeline): the loop of Run over the batches *)
(* of the batching engine, and handleStateChangeBatch.  An event is kept   *)
(* as what its resolution yields: whether resolveInput succeeds and the    *)
(* table (the domain of new_state.entity_id) it resolves to.               *)
(***************************************************************************)
InsertDatabase == "hass"            \* the Database resolveStateChangeDestination sets
Databases == {"hass", "other"}      \* values of p.database
Tables == {"", "light", "switch"}   \* "" is the domain of an entity id like ".x"
Events == [resolves : BOOLEAN, table : Tables]

RECURSIVE SeqsUpTo(_, _)
SeqsUpTo(S, n) ==
    IF n = 0 THEN {<<>>}
    ELSE LET shorter == SeqsUpTo(S, n - 1)
         IN  shorter \cup {Append(q, x) : q \in shorter, x \in S}

PipelineBatches == SeqsUpTo(Events, MaxBatchLen) \ {<<>>}
NoBatch == <<>>
NoInsert == [issued |-> FALSE, database |-> "", table |-> "", rows |-> <<>>,
             batch |-> <<>>, ok |-> FALSE]

\* The loop of handleStateChangeBatch over the events of a batch, from event i
\* on.  st holds tableName, values (the accepted events), the error count and
\* the tables whose creation is attempted (those not in the cache).
RECURSIVE HandleEvents(_, _, _, _, _)
HandleEvents(batch, i, db, cache, st) ==
    IF i > Len(batch) THEN st
    ELSE LET e == batch[i]
             err == [st EXCEPT !.errorCount = @ + 1]
             acc == [st EXCEPT !.values = Append(@, e),
                               !.tableName = e.table,
                               !.create = IF e.table \in cache THEN @
                                          ELSE @ \cup {e.table}]
         IN  IF ~e.resolves THEN HandleEvents(batch, i + 1, db, cache, err)
             ELSE IF InsertDatabase # db THEN HandleEvents(batch, i + 1, db, cache, err)
             ELSE IF st.tableName = "" THEN HandleEvents(batch, i + 1, db, cache, acc)
             ELSE IF st.tableName # e.table
                  THEN HandleEvents(batch, i + 1, db, cache, err)
             ELSE HandleEvents(batch, i + 1, db, cache, acc)

Handled(batch, db, cache) ==
    HandleEvents(batch, 1, db, cache,
                 [tableName |-> "", values |-> <<>>, errorCount |-> 0, create |-> {}])

\* Mutant of TableExists: a successful creation is not recorded.
TableExistsForgotten(cache, table) == cache

\* p.tableExists[tableKey] = true.  The key is "database.table"; the database
\* of every event that gets here is p.database, so the table stands for the key.
TableExists(cache, table) == cache \cup {table}

\* The creations in the loop of handleStateChangeBatch, from event i on.  An
\* accepted event whose table is not in the cache issues a create; outcomes[i]
\* says whether the create issued at event i succeeds.  A table is put into
\* the cache when its create succeeded, and the next event sees that cache.
\* st holds tableName, the cache and the creates issued so far.
RECURSIVE CreateTables(_, _, _, _, _)
CreateTables(batch, i, db, outcomes, st) ==
    IF i > Len(batch) THEN st
    ELSE LET e == batch[i]
             hit == [st EXCEPT !.tableName = e.table]
             create == [st EXCEPT !.tableName = e.table,
                                  !.creates = Append(@, [table |-> e.table,
                                                         ok |-> outcomes[i]]),
                                  !.cache = IF outcomes[i] THEN TableExists(@, e.table)
                                            ELSE @]
             accepted == IF e.table \in st.cache THEN hit ELSE create
         IN  IF ~e.resolves THEN CreateTables(batch, i + 1, db, outcomes, st)
             ELSE IF InsertDatabase # db THEN CreateTables(batch, i + 1, db, outcomes, st)
             ELSE IF st.tableName = "" THEN CreateTables(batch, i + 1, db, outcomes, accepted)
             ELSE IF st.tableName # e.table
                  THEN CreateTables(batch, i + 1, db, outcomes, st)
             ELSE CreateTables(batch, i + 1, db, outcomes, accepted)

Created(batch, db, cache, outcomes) ==
    CreateTables(batch, 1, db, outcomes, [tableName |-> "", cache |-> cache, creates |-> <<>>])

\* What Execute returns for the insert: nil, a fatal error, the last error
\* after the retries are exhausted, or the error of a cancelled ctx.
ExecuteResults == {"ok", "fatal", "exhausted", "cancelled"}

\* Mutant of AfterBatch: Run returns when the write of a batch failed.
AfterBatchStop(res) == IF res \in {"ok", "none"} THEN "select" ELSE "stopped"

\* Where Run goes after handleStateChangeBatch, which returns nothing: back to
\* its select, whatever the write did ("none": no insert was issued).
AfterBatch(res) == "select"

PipelineInit ==
    /\ plDatabase \in Databases
    /\ plPc = "select" /\ plIn = NoBatch /\ plBatch = NoBatch
    /\ tableExists = {} /\ lastInsert = NoInsert
    /\ plCtxDone = FALSE /\ plChanClosed = FALSE /\ plReceived = 0
    /\ failedBefore = FALSE /\ processedAfterFailure = FALSE
    /\ lastCreates = <<>> /\ createOk = {} /\ createIssued = {}

\* The batching engine emits a batch on stateChangeBatch.
PlEmit ==
    /\ plIn = NoBatch /\ ~plChanClosed /\ plReceived < MaxBatches
    /\ plIn' \in PipelineBatches
    /\ plReceived' = plReceived + 1
    /\ UNCHANGED <<plDatabase, plPc, plBatch, tableExists, lastInsert, plCtxDone,
                   plChanClosed, failedBefore, processedAfterFailure>>
    /\ UNCHANGED notPipeline

\* The batching engine closes stateChangeBatch.
PlEmitClose ==
    /\ plIn = NoBatch /\ ~plChanClosed
    /\ plChanClosed' = TRUE
    /\ UNCHANGED <<plDatabase, plPc, plIn, plBatch, tableExists, lastInsert,
                   plCtxDone, plReceived, failedBefore, processedAfterFailure>>
    /\ UNCHANGED notPipeline

PlCancel ==
    /\ ~plCtxDone
    /\ plCtxDone' = TRUE
    /\ UNCHANGED <<plDatabase, plPc, plIn, plBatch, tableExists, lastInsert,
                   plChanClosed, plReceived, failedBefore, processedAfterFailure>>
    /\ UNCHANGED notPipeline

\* Mutant of PlReturn: the select has no case for ctx.Done().
PlReturnNoCtx ==
    /\ plPc = "select"
    /\ plChanClosed /\ plIn = NoBatch
    /\ plPc' = "stopped"
    /\ UNCHANGED <<plDatabase, plIn, plBatch, tableExists, lastInsert, plCtxDone,
                   plChanClosed, plReceived, failedBefore, processedAfterFailure>>
    /\ UNCHANGED notPipeline

\* The select of Run takes ctx.Done(), or the closed stateChangeBatch: return nil.
PlReturn ==
    /\ plPc = "select"
    /\ plCtxDone \/ (plChanClosed /\ plIn = NoBatch)
    /\ plPc' = "stopped"
    /\ UNCHANGED <<plDatabase, plIn, plBatch, tableExists, lastInsert, plCtxDone,
                   plChanClosed, plReceived, failedBefore, processedAfterFailure>>
    /\ UNCHANGED notPipeline

\* The select of Run takes a batch.
PlReceive ==
    /\ plPc = "select" /\ plIn # NoBatch
    /\ plBatch' = plIn /\ plIn' = NoBatch
    /\ plPc' = "handle"
    /\ UNCHANGED <<plDatabase, tableExists, lastInsert, plCtxDone,
                   plChanClosed, plReceived, failedBefore, processedAfterFailure>>
    /\ UNCHANGED notPipeline

\* handleStateChangeBatch: the events are resolved, tables not in the cache are
\* created (each creation may fail; a table is cached once a creation of it
\* succeeded), and the accepted rows, if any, are written with one insert.
PlHandle ==
    /\ plPc = "handle"
    /\ LET h == Handled(plBatch, plDatabase, tableExists)
       IN  /\ \E outcomes \in [1..Len(plBatch) -> BOOLEAN] :
                 LET c == Created(plBatch, plDatabase, tableExists, outcomes)
                 IN  /\ tableExists' = c.cache
                     /\ lastCreates' = c.creates
                     /\ createOk' = createOk \cup
                            {c.creates[k].table : k \in {j \in 1..Len(c.creates) : c.creates[j].ok}}
                     /\ createIssued' = createIssued \cup
                            {c.creates[k].table : k \in 1..Len(c.creates)}
           /\ \E res \in (IF Len(h.values) = 0 THEN {"none"} ELSE ExecuteResults) :
                 /\ lastInsert' =
                       IF res = "none" THEN NoInsert
                       ELSE [issued |-> TRUE, database |-> plDatabase,
                             table |-> h.tableName, rows |-> h.values,
                             batch |-> plBatch, ok |-> (res = "ok")]
                 /\ failedBefore' = (failedBefore \/ res \in {"fatal", "exhausted"})
                 /\ processedAfterFailure' = (processedAfterFailure \/ failedBefore)
                 /\ plPc' = AfterBatch(res)
    /\ plBatch' = NoBatch
    /\ UNCHANGED <<plDatabase, plIn, plCtxDone, plChanClosed, plReceived>>
    /\ UNCHANGED notHandle

PipelineNext ==
    \/ PlEmit
    \/ PlEmitClose
    \/ PlCancel
    \/ PlReturn
    \/ PlReceive
    \/ PlHandle

(***************************************************************************)
(* Pipeline.Run from its call on: the creation of the database, the        *)
(* subscription, and the select loop with its three cases (ctx.Done(),     *)
(* errChan, stateChangeBatch).                                             *)
(***************************************************************************)
\* No Run was called.
RunIdle ==
    plSubscribed = FALSE /\ plDatabaseOk = "none" /\ plErrc = "open" /\ plCancelAt = ""

\* Run is in its loop: the database was created and the subscription made.
RunRunning ==
    plSubscribed = TRUE /\ plDatabaseOk = "ok" /\ plErrc = "open" /\ plCancelAt = ""

\* Run is called.
RunInit ==
    /\ plDatabase \in Databases
    /\ plPc = "init" /\ plIn = NoBatch /\ plBatch = NoBatch
    /\ tableExists = {} /\ lastInsert = NoInsert
    /\ plCtxDone = FALSE /\ plChanClosed = FALSE /\ plReceived = 0
    /\ failedBefore = FALSE /\ processedAfterFailure = FALSE
    /\ lastCreates = <<>> /\ createOk = {} /\ createIssued = {}
    /\ RunIdle

\* Mutant of AfterCreateDatabase: Run goes on when the creation failed.
AfterCreateDatabaseIgnore(ok) == "subscribe"

\* Where Run goes after createDatabaseIfNotExists: on to the subscription, or
\* it returns "failed to create database".
AfterCreateDatabase(ok) == IF ok THEN "subscribe" ELSE "failed"

PlCreateDatabase ==
    /\ plPc = "init"
    /\ \E ok \in BOOLEAN :
          /\ plDatabaseOk' = IF ok THEN "ok" ELSE "failed"
          /\ plPc' = AfterCreateDatabase(ok)
    /\ UNCHANGED <<plDatabase, plIn, plBatch, tableExists, lastInsert, plCtxDone,
                   plChanClosed, plReceived, failedBefore, processedAfterFailure>>
    /\ UNCHANGED <<plSubscribed, plErrc, plCancelAt>>
    /\ UNCHANGED notRun

\* p.tableExists is made and SubscribeEvents is called; when it fails Run
\* returns "failed to get states", else the batching engine is set up and the
\* loop begins.
PlSubscribe ==
    /\ plPc = "subscribe"
    /\ plSubscribed' = TRUE
    /\ tableExists' = {}
    /\ \E ok \in BOOLEAN : plPc' = IF ok THEN "select" ELSE "failed"
    /\ UNCHANGED <<plDatabase, plIn, plBatch, lastInsert, plCtxDone,
                   plChanClosed, plReceived, failedBefore, processedAfterFailure>>
    /\ UNCHANGED <<plDatabaseOk, plErrc, plCancelAt>>
    /\ UNCHANGED notRun

\* The ctx of Run is cancelled.
RunCancel ==
    /\ ~plCtxDone
    /\ plCtxDone' = TRUE
    /\ plCancelAt' = plPc
    /\ UNCHANGED <<plDatabase, plPc, plIn, plBatch, tableExists, lastInsert,
                   plChanClosed, plReceived, failedBefore, processedAfterFailure>>
    /\ UNCHANGED <<plSubscribed, plDatabaseOk, plErrc>>
    /\ UNCHANGED notRun

\* The batching engine exists once Run has set it up.
Batching == plPc \in {"select", "handle", "stopped"}

\* The batching engine puts a partition error into errChan (buffer 1).
PlErrSend ==
    /\ Batching /\ plErrc = "open" /\ ~plChanClosed
    /\ plErrc' = "error"
    /\ UNCHANGED pipelineVars
    /\ UNCHANGED <<plSubscribed, plDatabaseOk, plCancelAt>>
    /\ UNCHANGED notRun

\* The batching engine returns: its deferred close(errc) runs before close(out).
PlErrClose ==
    /\ Batching /\ plErrc \in {"open", "error"} /\ ~plChanClosed /\ plIn = NoBatch
    /\ plErrc' = IF plErrc = "open" THEN "closed" ELSE "closedError"
    /\ UNCHANGED pipelineVars
    /\ UNCHANGED <<plSubscribed, plDatabaseOk, plCancelAt>>
    /\ UNCHANGED notRun

\* The select of Run takes an error from errChan and logs it.
PlErrRecv ==
    /\ plPc = "select" /\ plErrc \in {"error", "closedError"}
    /\ plErrc' = IF plErrc = "error" THEN "open" ELSE "closed"
    /\ UNCHANGED pipelineVars
    /\ UNCHANGED <<plSubscribed, plDatabaseOk, plCancelAt>>
    /\ UNCHANGED notRun

\* The select of Run takes the closed errChan: continue.
PlErrClosed ==
    /\ plPc = "select" /\ plErrc = "closed"
    /\ UNCHANGED vars

RunNext ==
    \/ PlCreateDatabase
    \/ PlSubscribe
    \/ RunCancel
    \/ (Batching /\ PlEmit /\ Len(plIn') <= RunBatchLen)
    \/ (Batching /\ plErrc \in {"closed", "closedError"} /\ PlEmitClose)
    \/ PlErrSend
    \/ PlErrClose
    \/ PlErrRecv
    \/ PlErrClosed
    \/ PlReturn
    \/ PlReceive
    \/ PlHandle

(***************************************************************************)
(* resolveStateChangeDestination (internal/ingestion/schema.go): what one  *)
(* state_changed event resolves to.  A value written is a string or, for   *)
(* the boolean domains, a bool.                                            *)
(***************************************************************************)
EntitySwitch == "switch"
EntityLight == "light"
EntitySensor == "sensor"
EntityBinarySensor == "binary_sensor"
EntityInputBoolean == "input_boolean"
EntityBooleanSensor == "boolean_sensor"
EntityNumericSensor == "numeric_sensor"
UnknownValue == "unknown"
UnavailableValue == "unavailable"

\* The entity ids (their part before the "."), and the states of the model;
\* "21.5" is the one state strconv.ParseFloat accepts.
EntityPrefixes == {EntitySwitch, EntityLight, EntitySensor, EntityBinarySensor,
                   EntityInputBoolean, "person"}
StateValues == {"", UnknownValue, UnavailableValue, "on", "off", "true", "21.5", "home"}
ParsesAsFloat(state) == state = "21.5"

StringValue(v) == [type |-> "string", s |-> v, b |-> FALSE]
BoolValue(v) == [type |-> "bool", s |-> "", b |-> v]

isSkippedValue(value) == value \in {"", UnknownValue, UnavailableValue}

normalizeBooleanValue(value) == value \in {"on", "true"}

extractDomainFromState(prefix, state) ==
    IF prefix = EntitySensor
    THEN IF state \in {"on", "true", "off", "false"} THEN EntityBinarySensor
         ELSE IF ParsesAsFloat(state) THEN EntityNumericSensor
         ELSE prefix
    ELSE prefix

\* resolveStateChangeInput: the new state is tested and the old state is
\* emptied first; then the boolean domains overwrite both values.
resolveStateChangeInput(domain, oldState, newState) ==
    LET oldStateValue == IF isSkippedValue(oldState) THEN "" ELSE oldState
        boolean == domain \in {EntityBinarySensor, EntitySwitch, EntityInputBoolean,
                               EntityBooleanSensor}
    IN  IF isSkippedValue(newState)
        THEN [err |-> TRUE, table |-> "", state |-> StringValue(""),
              old_state |-> StringValue("")]
        ELSE [err |-> FALSE, table |-> domain,
              state |-> IF boolean THEN BoolValue(normalizeBooleanValue(newState))
                        ELSE StringValue(newState),
              old_state |-> IF boolean THEN BoolValue(normalizeBooleanValue(oldState))
                            ELSE StringValue(oldStateValue)]

resolveStateChangeDestination(prefix, oldState, newState) ==
    resolveStateChangeInput(extractDomainFromState(prefix, newState), oldState, newState)

NoResult == [err |-> FALSE, table |-> "", state |-> StringValue(""),
             old_state |-> StringValue("")]

ResolveIdle ==
    rsEntity = "" /\ rsOld = "" /\ rsNew = "" /\ rsPc = "idle" /\ rsResult = NoResult

ResolveInit ==
    /\ rsEntity \in EntityPrefixes /\ rsOld \in StateValues /\ rsNew \in StateValues
    /\ rsPc = "input" /\ rsResult = NoResult

Resolve ==
    /\ rsPc = "input"
    /\ rsResult' = resolveStateChangeDestination(rsEntity, rsOld, rsNew)
    /\ rsPc' = "done"
    /\ UNCHANGED <<rsEntity, rsOld, rsNew>>
    /\ UNCHANGED <<retryVars, batchVars, clientVars, pipelineVars, getStatesVars,
                   closeVars, createVars, runVars>>

ResolveNext == Resolve

\* The retry executor alone.
RetryIdle ==
    /\ cfg = [MaxRetries |-> 0, InitialInterval |-> 1, MaxInterval |-> 1,
              Multiplier |-> <<1, 1>>, RandomizationFactor |-> <<0, 1>>]
    /\ attempt = 0 /\ calls = 0 /\ lastErr = NoErr /\ retPc = "idle"
    /\ retResult = [tag |-> "none"] /\ ctxDone = FALSE /\ backoffTime = 0
    /\ prevBackoff = -1 /\ randDraw = 0 /\ wake = "none" /\ allRetryable = TRUE
    /\ callsAtCancel = -1

BatchIdle ==
    /\ opts = [MaxSize |-> 1, MaxWait |-> 1]
    /\ inItems = <<>> /\ batPc = "idle" /\ curItem = NoItem /\ batMtx = "free"
    /\ batches = <<>> /\ timers = <<>> /\ timerObjs = <<>> /\ now = 0 /\ out = <<>>
    /\ errc = <<>> /\ errsRecv = <<>> /\ flushLeft = {} /\ outClosed = FALSE

\* No client has been made.
ClientIdle ==
    /\ conn = 0 /\ connUp = FALSE /\ wire = <<>> /\ srvAuth = "none"
    /\ srvPending = {} /\ srvSubs = {}
    /\ isAuthenticated = FALSE /\ receiveCancelled = FALSE
    /\ rcvPc = "none" /\ rcvMsg = NoMsg
    /\ activeReceiversNum = 0 /\ activeReceivers = {} /\ resultClosed = {}
    /\ activeReceiversMtx = "free"
    /\ isReconnecting = FALSE /\ subscriptions = <<>>
    /\ recPc = "idle" /\ recSubs = <<>> /\ recInterval = ReconnectInterval
    /\ ssPc = [p \in Callers |-> "none"] /\ ssId = [p \in Callers |-> 0]
    /\ fwd = [i \in Ids |-> "none"] /\ fwdMsg = [i \in Ids |-> 0]
    /\ outputChan = <<>> /\ chanClosed = FALSE /\ chanReturned = FALSE
    /\ delivered = <<>>
    /\ hcPc = "idle" /\ closeCalled = FALSE /\ closedAgain = FALSE
    /\ subCtxDone = FALSE
    /\ drops = <<>> /\ emitted = 0 /\ handled = {} /\ replayed = {}
    /\ panicked = ""

\* No pipeline runs.
PipelineIdle ==
    /\ plDatabase = "hass"
    /\ plPc = "idle" /\ plIn = NoBatch /\ plBatch = NoBatch
    /\ tableExists = {} /\ lastInsert = NoInsert
    /\ plCtxDone = FALSE /\ plChanClosed = FALSE /\ plReceived = 0
    /\ failedBefore = FALSE /\ processedAfterFailure = FALSE
    /\ lastCreates = <<>> /\ createOk = {} /\ createIssued = {}

InitRetry == RetryInit /\ BatchIdle /\ ClientIdle /\ PipelineIdle /\ GetStatesInit /\ CloseInit
    /\ RunIdle
    /\ ResolveIdle

SpecRetry == InitRetry /\ [][RetryNext]_vars

\* The batching engine alone.
InitBatch == BatchInit /\ RetryIdle /\ ClientIdle /\ PipelineIdle /\ GetStatesInit /\ CloseInit
    /\ RunIdle
    /\ ResolveIdle

SpecBatch == InitBatch /\ [][BatchNext]_vars

\* The Home Assistant client alone.
InitClient == ClientInit /\ RetryIdle /\ BatchIdle /\ PipelineIdle /\ GetStatesInit /\ CloseInit
    /\ RunIdle
    /\ ResolveIdle

SpecClient == InitClient /\ [][ClientNext]_vars

SpecClientUnsolicited == InitClient /\ [][UnsolicitedNext]_vars

SpecSession == InitClient /\ [][SessionNext]_vars

\* The session with its goroutines scheduled, a source that answers on a
\* connection that is up, and a dial that succeeds in the end.  Connection
\* losses, Close() and the refusal of the credentials stay free.
SessionFairness ==
    /\ WF_vars(SrvAuthRequired) /\ WF_vars(SrvAuthOK)
    /\ WF_vars(RcvSelect) /\ WF_vars(RcvReadError) /\ WF_vars(RcvAuthRequired)
    /\ WF_vars(RcvAuthOK) /\ WF_vars(RcvAuthInvalid)
    /\ WF_vars(RecStart) /\ WF_vars(RecConnect) /\ WF_vars(RecWaitAuthenticated)
    /\ WF_vars(RecDone)

SpecSessionFair == InitClient /\ [][SessionNext]_vars /\ SessionFairness

\* The goroutines that work with c.reconnectMu are scheduled, and a
\* goroutine that waits for the mutex gets it when it is released again and
\* again.
CloseFairness ==
    /\ SF_vars(CloseLock) /\ WF_vars(CloseChannels) /\ WF_vars(CloseConn)
    /\ WF_vars(ReconnectEnter) /\ WF_vars(RecCopy) /\ WF_vars(RecDoneUnlock)

SpecClose == InitClient /\ [][CloseNext]_vars

SpecCloseFair == InitClient /\ [][CloseNext]_vars /\ CloseFairness

SpecRequests == InitClient /\ [][RequestsNext]_vars

InitRun == RunInit /\ RetryIdle /\ BatchIdle /\ ClientIdle /\ GetStatesInit /\ CloseInit
    /\ ResolveIdle

SpecRun == InitRun /\ [][RunNext]_vars

\* Run is scheduled, and its select, which picks at random among the cases
\* that are ready, picks each case that is ready again and again.
RunFairness ==
    /\ WF_vars(PlCreateDatabase) /\ WF_vars(PlSubscribe) /\ WF_vars(PlHandle)
    /\ SF_vars(PlReturn)

SpecRunFair == InitRun /\ [][RunNext]_vars /\ RunFairness

InitResolve ==
    /\ ResolveInit /\ RetryIdle /\ BatchIdle /\ ClientIdle /\ PipelineIdle
    /\ GetStatesInit /\ CloseInit /\ RunIdle

SpecResolve == InitResolve /\ [][ResolveNext]_vars

SpecGetStates == InitClient /\ [][GetStatesNext]_vars

\* The orchestrator alone.
InitPipeline == PipelineInit /\ RetryIdle /\ BatchIdle /\ ClientIdle /\ GetStatesInit /\ CloseInit
    /\ RunRunning
    /\ ResolveIdle

SpecPipeline == InitPipeline /\ [][PipelineNext]_vars

\* The client with its goroutines scheduled fairly, a source that answers what
\* it has received and accepts a dial in the end, and a caller that drains the
\* output channel.  Connection losses, Close(), ctx cancellation, timeouts and
\* the emission of events stay free.
ClientFairness ==
    /\ WF_vars(HcWaitAuthenticated) /\ WF_vars(HcSubscribeEvents) /\ WF_vars(HcConsume)
    /\ WF_vars(SrvAuthRequired) /\ WF_vars(SrvAuthOK) /\ WF_vars(SrvResult)
    /\ WF_vars(RcvSelect) /\ WF_vars(RcvReadError) /\ WF_vars(RcvAuthRequired)
    /\ WF_vars(RcvAuthOK) /\ WF_vars(RcvHandleUnknown) /\ WF_vars(RcvHandleMessage)
    /\ \A p \in Callers :
          /\ WF_vars(SsBegin(p)) /\ WF_vars(SsResult(p)) /\ WF_vars(SsCloseReceiver(p))
    /\ \A i \in Ids :
          /\ WF_vars(FwdCloseReceiver(i)) /\ WF_vars(FwdRecv(i)) /\ WF_vars(FwdSend(i))
    /\ WF_vars(RecStart) /\ WF_vars(RecConnect) /\ WF_vars(RecWaitAuthenticated)
    /\ WF_vars(RecDone)

SpecClientFair == InitClient /\ [][ClientNext]_vars /\ ClientFairness

\* The client where only the caller's goroutine in WaitAuthenticated is known
\* to be scheduled: its polling loop keeps running.
SpecClientPolling == InitClient /\ [][ClientNext]_vars /\ WF_vars(HcWaitAuthenticated)

(***************************************************************************)
(* Claims about the retry executor, checked under SpecRetry.               *)
(***************************************************************************)

\* C7: for MaxRetries = M >= 0, a Do that ends with the retries exhausted (its
\* operation failed with a retryable error every time and ctx was not cancelled)
\* has invoked the operation exactly M + 1 times and returns the error of the
\* last invocation; a non-retryable error ends Do at once, so an operation whose
\* first error is non-retryable is invoked exactly once; never more than M + 1
\* invocations are made.
C7_RetryCount ==
    (cfg.MaxRetries >= 0) =>
        /\ calls <= cfg.MaxRetries + 1
        /\ (retPc = "done" /\ allRetryable /\ retResult.tag \notin {"nil", "canceled"})
              => /\ retResult.tag = "exhausted"
                 /\ calls = cfg.MaxRetries + 1
                 /\ retResult.err = lastErr
                 /\ lastErr.call = calls
        /\ (~allRetryable)
              => /\ retPc = "done"
                 /\ retResult.tag = "nonretryable"
                 /\ retResult.err.call = calls
                 /\ (attempt = 0 => calls = 1)

\* C7 witness: MaxRetries = 3, four retryable failures, retries exhausted.
C7_Witness ==
    /\ retPc = "done"
    /\ cfg.MaxRetries = 3
    /\ retResult.tag = "exhausted"
    /\ calls = 4

\* C8: once ctx is cancelled while Do waits out a backoff delay that has not
\* elapsed, the operation is not invoked again, Do is woken by ctx.Done() and
\* not by the timer, and what it returns is the cancellation error, which is
\* not the retries-exhausted error.
C8_CancelDuringWait ==
    (callsAtCancel # -1) =>
        /\ calls = callsAtCancel
        /\ (retPc # "done" => (retPc = "wait" /\ wake = "ctx"))
        /\ (retPc = "done" => retResult.tag = "canceled")

\* C8 witness: a Do that returned the cancellation error out of a wait whose
\* delay was not zero.
C8_Witness ==
    /\ callsAtCancel # -1
    /\ retPc = "done"
    /\ backoffTime > 0
    /\ calls < cfg.MaxRetries + 1

\* b of C9: min(InitialInterval * Multiplier^attempt, MaxInterval), as a fraction.
C9_B(c, a) ==
    LET n == c.InitialInterval * Pow(c.Multiplier[1], a)
        d == Pow(c.Multiplier[2], a)
    IN  IF n > c.MaxInterval * d THEN <<c.MaxInterval, 1>> ELSE <<n, d>>

C10_Listed(e) ==
    \/ e.net
    \/ Contains(e.msg, <<"connection", "refused">>)
    \/ Contains(e.msg, <<"connection", "reset">>)
    \/ Contains(e.msg, <<"no", "route", "to", "host">>)
    \/ Contains(e.msg, <<"i/o", "timeout">>)
    \/ Contains(e.msg, <<"Too", "many", "parts">>)
    \/ Contains(e.msg, <<"Memory", "limit">>)
    \/ Contains(e.msg, <<"Timeout">>)
    \/ \E code \in {"500", "502", "503", "504"} : Contains(e.msg, <<"status", code>>)

\* C10: an error outside the listed classes (a response with status 400) is
\* fatal: Execute ends with it as a non-retryable error, after one attempt when
\* it is the first error.
C10_OnlyListedRetried ==
    (lastErr # NoErr /\ ~C10_Listed(lastErr.err)) =>
        /\ retPc = "done"
        /\ retResult.tag = "nonretryable"
        /\ (attempt = 0 => calls = 1)

(***************************************************************************)
(* Claims about the batching engine, checked under SpecBatch.              *)
(***************************************************************************)
Min(a, b) == IF a <= b THEN a ELSE b

CeilDiv(n, d) == (n + d - 1) \div d

RECURSIVE SumSizes(_)
SumSizes(o) == IF o = <<>> THEN 0 ELSE Len(Head(o).items) + SumSizes(Tail(o))

\* The places <<batch, position>> of out that hold the item.
PlacesOf(item) ==
    {pl \in {<<b, x>> : b \in DOMAIN out, x \in 1..MaxItems} :
        pl[2] <= Len(out[pl[1]].items) /\ out[pl[1]].items[pl[2]] = item}

\* No timer function has started.
NoDeadlineFired == \A t \in DOMAIN timerObjs : timerObjs[t].st \in {"armed", "stopped"}

\* C3: when Batch has returned, no deadline has fired, all N items had one
\* partition key and 1 <= MaxSize = S < N, then out carries ceil(N/S) batches,
\* the i-th holding the items (i-1)*S+1 .. min(i*S, N) in arrival order.
C3_SizeBatches ==
    LET N == Len(inItems)
        S == opts.MaxSize
    IN  (/\ batPc = "done"
         /\ NoDeadlineFired
         /\ 1 <= S /\ S < N
         /\ \A i \in DOMAIN inItems : inItems[i].dom = "a")
        => /\ Len(out) = CeilDiv(N, S)
           /\ \A i \in DOMAIN out :
                 out[i].items = SubSeq(inItems, (i - 1) * S + 1, Min(i * S, N))

\* C4: the items of a batch sent on out all have the key the partition function
\* returned for the first of them.
C4_OneKeyPerBatch ==
    \A i \in DOMAIN out :
        \A x \in DOMAIN out[i].items : out[i].items[x].dom = out[i].items[1].dom

\* C4 witness: a batch of two items of one key and a batch of another key, one
\* of them sent by a deadline timer.
C4_Witness ==
    \E i, j \in DOMAIN out :
        /\ Len(out[i].items) = 2
        /\ Len(out[j].items) >= 1
        /\ out[i].items[1].dom # out[j].items[1].dom
        /\ "timer" \in {out[i].by, out[j].by}

\* C5: no item is ever sent twice; when Batch has returned, every item whose
\* partition function did not fail is in exactly one batch, the sizes of the
\* batches sum to the number of those items, and every partition that held items
\* when in was closed was sent exactly once by the final flush.
C5_FinalFlush ==
    /\ \A i \in DOMAIN inItems : Cardinality(PlacesOf(inItems[i])) <= 1
    /\ (batPc = "done") =>
          /\ \A i \in DOMAIN inItems :
                inItems[i].dom # "err" => Cardinality(PlacesOf(inItems[i])) = 1
          /\ SumSizes(out) = Cardinality({i \in DOMAIN inItems : inItems[i].dom # "err"})
          /\ \A k \in DOMAIN batches :
                Cardinality({b \in DOMAIN out : /\ out[b].by = "close"
                                                /\ out[b].items = batches[k]}) = 1
          /\ Cardinality({b \in DOMAIN out : out[b].by = "close"})
                = Cardinality(DOMAIN batches)

\* C5 witness: Batch has returned after three items, one with a failing
\* partition function, and two partitions were flushed at the closure of in.
C5_Witness ==
    /\ batPc = "done"
    /\ Len(inItems) = 3
    /\ \E i \in DOMAIN inItems : inItems[i].dom = "err"
    /\ Cardinality({b \in DOMAIN out : out[b].by = "close"}) = 2

\* C6: a batch sent by a deadline timer is the batch of the window that armed
\* the timer: it is not empty and it is sent exactly MaxWait after the arrival
\* of its first item; and no window is kept beyond its deadline.
C6_DeadlineFlush ==
    /\ \A i \in DOMAIN out :
          (out[i].by = "timer") =>
              /\ out[i].items # <<>>
              /\ out[i].at = out[i].items[1].at + opts.MaxWait
    /\ (batPc # "done") =>
          \A k \in DOMAIN batches : now <= batches[k][1].at + opts.MaxWait

\* The errors put on errc so far, taken by the consumer or still buffered.
ErrorsSent == errsRecv \o errc

\* The items received so far whose partition function failed.
FailedItems == {i \in DOMAIN inItems : PartitionBy(inItems[i]).err}

\* C16: an item whose partition function fails is in no batch, neither pending
\* nor sent, and puts exactly one error on errc (none yet while the goroutine is
\* at "errc <- err" for it); errc carries no other error; and when Batch has
\* returned, every other item, arrived before or after it, was sent in a batch.
C16_PartitionError ==
    /\ \A i \in FailedItems :
          /\ PlacesOf(inItems[i]) = {}
          /\ \A k \in DOMAIN batches :
                \A x \in DOMAIN batches[k] : batches[k][x] # inItems[i]
          /\ Cardinality({e \in DOMAIN ErrorsSent : ErrorsSent[e] = i})
                = IF batPc = "errsend" /\ curItem = inItems[i] THEN 0 ELSE 1
    /\ \A e \in DOMAIN ErrorsSent : ErrorsSent[e] \in FailedItems
    /\ (batPc = "done") =>
          \A i \in DOMAIN inItems \ FailedItems : PlacesOf(inItems[i]) # {}

\* C16 witness: Batch has returned; the second of three items failed in the
\* partition function and its error was taken from errc, and the items before
\* and after it, of two partitions, were sent.
C16_Witness ==
    /\ batPc = "done"
    /\ Len(inItems) = 3
    /\ FailedItems = {2}
    /\ inItems[1].dom # inItems[3].dom
    /\ errsRecv = <<2>>
    /\ PlacesOf(inItems[1]) # {} /\ PlacesOf(inItems[3]) # {}

\* C17: no batch sent on out has more than MaxSize items, and a partition is
\* sent as soon as it holds MaxSize items: an accumulated batch is below MaxSize
\* unless the goroutine stands at the "out <- batches[key]" that sends it.
C17_MaxSize ==
    /\ \A i \in DOMAIN out : Len(out[i].items) <= opts.MaxSize
    /\ \A k \in DOMAIN batches :
          \/ Len(batches[k]) < opts.MaxSize
          \/ /\ Len(batches[k]) = opts.MaxSize
             /\ batPc = "send" /\ PartitionBy(curItem).key = k

\* C17 restricted to MaxSize >= 2.
C17_MaxSizeAbove1 == (opts.MaxSize >= 2) => C17_MaxSize

\* C20: exactly one flush per window.  No batch on out is empty, and a timer
\* function that stands at its "out <- batches[key]" flushes the window it was
\* armed for: the key still has an accumulated batch (the size trigger has not
\* sent the window already) and the timer is the one armed last for the key
\* (the batch is not that of a later window).
C20_OneFlushPerWindow ==
    /\ \A i \in DOMAIN out : out[i].items # <<>>
    /\ \A t \in DOMAIN timerObjs :
          (timerObjs[t].st = "sending") =>
              /\ timerObjs[t].key \in DOMAIN batches
              /\ timers[timerObjs[t].key] = t

\* C20 as long as Stop() never finds its timer fired: no size trigger has met
\* a timer whose function had started.
StopAlwaysInTime ==
    \A t \in DOMAIN timerObjs :
        timerObjs[t].st \in {"fired", "sending", "done"} =>
            \A i \in DOMAIN out :
                (out[i].by = "size" /\ out[i].key = timerObjs[t].key) =>
                    out[i].items[1].at + opts.MaxWait # timerObjs[t].deadline

C20_WhenStopInTime == StopAlwaysInTime => C20_OneFlushPerWindow

(***************************************************************************)
(* Claims about the Home Assistant client, checked under SpecClient and    *)
(* SpecClientFair.                                                         *)
(***************************************************************************)

\* C1: whatever connection losses and reconnections happen, the channel a
\* successful SubscribeEvents returned is closed only if the caller has invoked
\* Close().
C1_ClosedOnlyByClose == (chanReturned /\ chanClosed) => closeCalled

\* A connection was lost while the subscription was active, the reconnect
\* goroutine has dialled a new connection and tried to restore the
\* subscription, and the caller's channel is still open.
C1_Witness ==
    /\ chanReturned /\ ~chanClosed /\ ~closeCalled
    /\ \E k \in 1..Len(drops) : drops[k]
    /\ conn >= 2 /\ recPc = "idle" /\ ~isReconnecting

\* handleMessage holds activeReceiversMtx, blocked in its send on a result
\* channel that no goroutine will receive from: the one that owned it has left
\* its select (and waits for the mutex in closeReceiver, or has returned).
Deadlocked ==
    /\ rcvPc = "send"
    /\ \A p \in Callers : ~(ssPc[p] = "wait" /\ ssId[p] = rcvMsg.id)
    /\ fwd[rcvMsg.id] \in {"none", "closing", "done"}

\* The scenario of C2: a connection was lost while the subscription was active,
\* and the caller has neither closed the client nor cancelled its ctx.
LostWhileActive ==
    /\ \E k \in 1..Len(drops) : drops[k]
    /\ ~closeCalled /\ ~subCtxDone

\* Event n is on its way to the client for a subscription that reconnect has
\* restored.
InFlightReplayed(n) ==
    \E k \in 1..Len(wire) :
        wire[k].type = "event" /\ wire[k].n = n /\ wire[k].id \in replayed

Delivered(n) == \E k \in 1..Len(delivered) : delivered[k] = n

\* C2: after a connection loss while the subscription was active, the client
\* reaches neither a panic nor a deadlock, and every event the source emits for
\* the restored subscription is eventually delivered on the caller's channel
\* (unless the connection is lost again, or the caller closes or cancels).
C2_ReplayDelivers ==
    /\ [](LostWhileActive => (~Deadlocked /\ panicked = ""))
    /\ \A n \in 1..MaxEvents :
          (LostWhileActive /\ InFlightReplayed(n))
             ~> (Delivered(n) \/ ~connUp \/ closeCalled \/ subCtxDone)

\* C11: Close() closes every output channel exactly once: whatever the
\* interleaving of Close() with a second Close(), with a SubscribeEvents that
\* waits for or fails on its acknowledgement, and with a reconnect, no output
\* channel is closed a second time (closing a closed channel panics).
C11_NoDoubleClose == panicked # "close of closed channel"

\* The SubscribeEvents call has failed after sending its request (its
\* acknowledgement failed or timed out, or the write failed).
SubscribeFailed == hcPc = "failed" /\ activeReceiversNum >= 1

\* C12: a SubscribeEvents call that failed has closed its output channel and
\* not returned it, its subscription is no longer recorded, and no reconnect
\* has re-issued the subscription (the call's own request is the only one ever
\* made) or bound a forwarder to the channel.
C12_FailedNotReplayed ==
    SubscribeFailed =>
        /\ chanClosed /\ ~chanReturned
        /\ subscriptions = <<>>
        /\ activeReceiversNum = 1
        /\ \A i \in Ids : fwd[i] = "none"

\* C13: WaitAuthenticated returns nil only when the source has confirmed the
\* authentication of the current connection, it returns the cancellation error
\* only when ctx is cancelled and the session unauthenticated, and once ctx is
\* cancelled it returns in the end.
C13_ReturnsNil == (isAuthenticated /\ srvAuth = "ok")

C13_WaitAuthenticated ==
    /\ [][/\ ((hcPc = "auth" /\ hcPc' = "ready") => C13_ReturnsNil)
           /\ ((hcPc = "auth" /\ hcPc' = "failed") => (subCtxDone /\ ~isAuthenticated))
           /\ ((recPc = "auth" /\ recPc' = "restore") => C13_ReturnsNil)]_vars
    /\ (hcPc = "auth" /\ subCtxDone) ~> (hcPc \in {"ready", "failed"})

\* WaitAuthenticated has returned the cancellation error on an open,
\* unauthenticated connection.
C13_Witness ==
    /\ hcPc = "failed" /\ conn >= 1 /\ activeReceiversNum = 0
    /\ subCtxDone /\ ~isAuthenticated

(***************************************************************************)
(* Claims about the orchestrator, checked under SpecPipeline.              *)
(***************************************************************************)

\* The destination the batch establishes: the table of its first event that
\* resolves, with the database of the pipeline.
Acceptable(e, db) == e.resolves /\ InsertDatabase = db

FirstTable(batch, db) ==
    LET ok == SelectSeq(batch, LAMBDA e : Acceptable(e, db))
    IN  IF ok = <<>> THEN "" ELSE ok[1].table

C15_FailureDoesNotStop ==
    [][/\ ((plPc = "handle" /\ plPc' # "handle") => plPc' = "select")
       /\ ((plPc # "stopped" /\ plPc' = "stopped") => (plCtxDone \/ plChanClosed))]_vars

\* The write of a batch failed, and Run has handled a later batch.
C15_Witness == failedBefore /\ processedAfterFailure /\ plPc = "select"

\* C18: Closed is terminal.  Once Close() has been called, no step starts a
\* reconnection, dials a new connection or starts a receive loop (the model
\* has no second Connect by the caller).
C18_ClosedIsTerminal ==
    [][closeCalled =>
          /\ conn' = conn
          /\ (~isReconnecting => ~isReconnecting')
          /\ (rcvPc \in {"none", "exited"} => rcvPc' = rcvPc)]_vars

\* C18, its last part alone: after Close() the client never again holds a
\* connection that is up.
C18_NoConnectionAfterClose == closeCalled => ~connUp

\* The event messages placed on the output channel so far, taken by the caller
\* or still buffered.
Placed == delivered \o outputChan

LiveForwarders ==
    {i \in srvSubs : i \in activeReceivers /\ fwd[i] \in {"wait", "send"}}

\* A reconnect has succeeded and its goroutine has returned: the connection it
\* dialled is up and authenticated, the caller holds the open channel of a
\* registered subscription and has cancelled nothing.
ReconnectSettled ==
    /\ Running /\ conn >= 2 /\ connUp /\ isAuthenticated
    /\ recPc = "idle" /\ ~isReconnecting
    /\ subscriptions # <<>> /\ chanReturned /\ ~chanClosed /\ ~subCtxDone
    /\ ssPc["caller"] = "none"

\* C21: after a successful reconnect every registered subscription is
\* replayed: once the reconnect goroutine has returned, a forwarder bound to
\* the caller's channel serves a subscription of the new connection; a replay
\* that failed does not leave the subscription without a forwarder.
C21_ReplayedAfterReconnect == ReconnectSettled => LiveForwarders # {}

\* C22: handleMessage starts a send only for a message with a non-zero id
\* that has a registered receiver; the send is taken only by the receiver
\* registered under the id of the message (the startSubscription call waiting
\* for that id, or the forwarder of that id); and a message whose id is 0 or
\* not registered is dropped: it reaches no receiver and the loop is back at
\* its head.
C22_Demultiplex ==
    [][/\ ((rcvPc = "read" /\ rcvPc' = "send") =>
              /\ rcvMsg' = Head(wire)
              /\ rcvMsg'.id # 0 /\ rcvMsg'.id \in activeReceivers)
       /\ ((rcvPc = "send" /\ rcvPc' # "send") =>
              /\ rcvPc' = "select"
              /\ \/ \E p \in Callers :
                       /\ ssPc[p] = "wait" /\ ssId[p] = rcvMsg.id
                       /\ ssPc'[p] # "wait"
                       /\ \A q \in Callers \ {p} : ssPc'[q] = ssPc[q]
                       /\ \A j \in Ids \ {rcvMsg.id} : fwd'[j] = fwd[j]
                 \/ /\ fwd[rcvMsg.id] = "wait"
                    /\ rcvMsg.type = "event" =>
                          fwd'[rcvMsg.id] = "send" /\ fwdMsg'[rcvMsg.id] = rcvMsg.n
                    /\ \A j \in Ids \ {rcvMsg.id} :
                          fwd'[j] = fwd[j] /\ fwdMsg'[j] = fwdMsg[j]
                    /\ ssPc' = ssPc)
       /\ ((/\ CanRead({"result", "event"})
            /\ (Head(wire).id = 0 \/ Head(wire).id \notin activeReceivers)
            /\ rcvPc' # rcvPc) =>
              /\ rcvPc' = "select" /\ wire' = Tail(wire)
              /\ UNCHANGED <<rcvMsg, fwd, fwdMsg, ssPc, outputChan, handled>>)]_vars

\* C22 witness: the source has acknowledged request i, the acknowledgement is
\* neither in flight nor held by handleMessage, and request i, closed after its
\* timeout, never got a forwarder: the late result was dropped and the loop
\* went on.
C22_Witness ==
    /\ connUp /\ wire = <<>> /\ rcvPc \in {"select", "read"}
    /\ \E i \in srvSubs : i \in resultClosed /\ fwd[i] = "none"

\* The startSubscription call of p has taken the timeout case of its select
\* and stands before closeReceiver, which needs activeReceiversMtx, while
\* handleMessage holds the mutex, blocked in its send on the result channel of
\* that call, which nobody receives from any more.
TimedOutBlocked(p) ==
    /\ ssPc[p] = "timeout"
    /\ rcvPc = "send" /\ rcvMsg.id = ssId[p]
    /\ activeReceiversMtx = "recv"

\* C23: a response that arrives for a request whose acknowledgement timeout
\* has fired blocks neither the receive loop nor the caller.
C23_LateResponseDropped == \A p \in Callers : ~TimedOutBlocked(p)

\* C24: the registry entry of a request is destroyed when the request
\* finishes: once GetStates has returned, with the states, a failure response,
\* a timeout or a failed write, c.activeReceivers holds no entry under its id.
C24_EntryDestroyed == (gsPc = "returned") => gsId \notin activeReceivers

\* C24 for the returns of GetStates with an error response or a timeout, which
\* go through closeReceiver.
C24_DestroyedOnFailure ==
    (gsPc = "returned" /\ gsResult \in {"failed", "write"}) => gsId \notin activeReceivers

\* C25: the authentication state follows the handshake.  A step that installs
\* a connection leaves the client unauthenticated; the credentials are sent in
\* exactly the steps that read an auth_required, once each; the client becomes
\* authenticated only by reading auth_ok from the current connection; and
\* reading auth_invalid sends nothing and leaves it unauthenticated.
C25_Handshake ==
    [][/\ (conn' # conn => ~isAuthenticated')
       /\ ((srvAuth' = "authed" /\ srvAuth # "authed") <=>
              (/\ CanRead({"auth_required"})
               /\ conn' = conn /\ wire' = Tail(wire) /\ rcvPc' = "select"))
       /\ ((isAuthenticated' /\ ~isAuthenticated) =>
              (/\ CanRead({"auth_ok"}) /\ conn' = conn /\ wire' = Tail(wire)))
       /\ ((CanRead({"auth_invalid"}) /\ rcvPc' # rcvPc) =>
              (/\ isAuthenticated' = isAuthenticated /\ srvAuth' = srvAuth
               /\ conn' = conn /\ rcvPc' = "select"))
       /\ (srvAuth' = "invalid" => ~isAuthenticated')]_vars

\* C25 witness: on a connection dialled by reconnect the source has refused
\* the credentials, the receive loop has read the refusal and goes on reading,
\* and the client is unauthenticated.
C25_Witness ==
    /\ conn >= 2 /\ connUp /\ srvAuth = "invalid" /\ wire = <<>>
    /\ rcvPc \in {"select", "read"}
    /\ ~isAuthenticated

\* C26: the session is always eventually connected.  Whenever the connection
\* of a client that was not closed is down, the client is later connected and
\* authenticated again (or closed by its caller, or refused by the source).
C26_EventuallyConnected ==
    (conn # 0 /\ ~connUp /\ ~closeCalled)
        ~> (closeCalled \/ srvAuth = "invalid" \/ (connUp /\ isAuthenticated))

\* The state C26 fails in: the reconnect goroutine waits for the authentication
\* of a connection that is lost already and whose receive loop has returned.
ReconnectStuck ==
    /\ recPc = "auth" /\ isReconnecting /\ ~isAuthenticated
    /\ ~connUp /\ rcvPc = "exited" /\ ~closeCalled

\* C27: the caller's cancellation reaches the reconnect loop.  Once the
\* caller's context is cancelled no further connection is opened, and a
\* reconnect does not stay in its wait for authentication.
C27_CancelStopsReconnect ==
    [][subCtxDone => (conn' = conn /\ (recPc = "dial" => recPc' # "auth"))]_vars

\* The second half of C27: a reconnect that waits for authentication when the
\* caller's context is cancelled leaves the wait.
C27_CancelEndsWait ==
    (subCtxDone /\ recPc = "auth") ~> (recPc # "auth")

\* C28: Close() called while a reconnection is in progress returns without
\* deadlock.  A Close() that has been called returns (or the program has
\* ended by a panic).
C28_CloseReturns == (clPc = "lock") ~> (clPc = "returned" \/ ~Running)

\* C28 as a state property: while Close() is under way it can take its next
\* step, or the goroutine that holds c.reconnectMu can release it.
C28_CloseNotBlocked ==
    (Running /\ clPc \notin {"idle", "returned"})
        => \/ ENABLED CloseLock \/ ENABLED CloseChannels \/ ENABLED CloseConn
           \/ ENABLED ReconnectEnter \/ ENABLED RecCopy \/ ENABLED RecDoneUnlock

\* Close() has returned, and it was called while reconnect replayed the
\* subscriptions.
C28_Witness == clPc = "returned" /\ clAt = "sub"

\* Close() has returned after a call at each other step of a reconnection.
C28_AtStart == clPc = "returned" /\ clAt = "start"
C28_AtLock == clPc = "returned" /\ clAt = "lock"
C28_AtCopy == clPc = "returned" /\ clAt = "copy"
C28_AtDial == clPc = "returned" /\ clAt = "dial"
C28_AtAuth == clPc = "returned" /\ clAt = "auth"
C28_AtDone == clPc = "returned" /\ clAt = "done"
\* Close() waits for the mutex that the reconnect goroutine holds.
C28_Contended == clPc = "lock" /\ reconnectMu = "reconnect"

\* The ids a step hands out: to a startSubscription, to a GetStates, to a new
\* entry of the registry, to a request the source receives.
IssuedIds ==
    {ssId'[p] : p \in {q \in Callers : ssId'[q] # ssId[q] /\ ssId'[q] # 0}}
        \cup (IF gsId' # gsId /\ gsId' # 0 THEN {gsId'} ELSE {})
        \cup (activeReceivers' \ activeReceivers)
        \cup (srvPending' \ srvPending)
        \cup (IF gsAsked' # gsAsked /\ gsAsked' # 0 THEN {gsAsked'} ELSE {})

\* C29: request ids are positive, strictly increasing and never reused.  The
\* counter never decreases, every id a step hands out is the new value of the
\* counter and is larger than every id handed out before, and the ids in
\* use lie below the counter.
C29_FreshIds ==
    /\ [](/\ activeReceivers \subseteq 1..activeReceiversNum
          /\ \A p \in Callers : ssId[p] \in 0..activeReceiversNum
          /\ gsId \in 0..activeReceiversNum
          /\ \A p \in Callers : ssId[p] # 0 => (ssId[p] # gsId
                                   /\ \A q \in Callers \ {p} : ssId[q] # ssId[p]))
    /\ [][/\ activeReceiversNum' >= activeReceiversNum
          /\ IssuedIds \subseteq {activeReceiversNum'}
          /\ IssuedIds # {} => activeReceiversNum' = activeReceiversNum + 1]_vars

\* A SubscribeEvents of the caller, the replay of reconnect on the second
\* connection and a GetStates each hold an id.
C29_Witness ==
    /\ ssId["caller"] # 0 /\ ssId["reconn"] # 0 /\ gsId # 0 /\ conn = 2

\* C30: creation is at most once after success, and comes before the insert.
\* handleStateChangeBatch issues no create for a table a create has succeeded
\* for, in an earlier batch or at an earlier event of the same batch, and a
\* table it inserts into has had a create issued.
C30_CreateOnceBeforeInsert ==
    [][(plPc = "handle" /\ plPc' # "handle") =>
          /\ \A k \in 1..Len(lastCreates') :
                /\ lastCreates'[k].table \notin createOk
                /\ \A j \in 1..(k - 1) :
                      lastCreates'[j].table = lastCreates'[k].table => ~lastCreates'[j].ok
          /\ lastInsert'.issued =>
                /\ lastInsert'.table \in createIssued'
                /\ lastInsert'.table \notin createIssued
                      => \E k \in 1..Len(lastCreates') :
                            lastCreates'[k].table = lastInsert'.table]_vars

\* Both batches are handled: the create of a table succeeded in the first, the
\* second issued no create and inserted into that table.
C30_Witness ==
    /\ plReceived = MaxBatches /\ plPc = "select" /\ plIn = NoBatch
    /\ lastCreates = <<>>
    /\ lastInsert.issued /\ lastInsert.table \in createOk

\* A create that failed is issued again at the next event of the same table.
C30_RetriedAfterFailure ==
    /\ Len(lastCreates) = 2 /\ lastCreates[1].table = lastCreates[2].table
    /\ ~lastCreates[1].ok /\ lastCreates[2].ok
\* The insert of a batch goes out although the create of its table failed.
C30_InsertAfterFailedCreate ==
    /\ lastInsert.issued /\ lastInsert.table \notin createOk

\* C31: Run ensures the database before it subscribes, and when that creation
\* fails Run returns an error, has not subscribed and handles no batch.
C31_Initializing ==
    /\ plSubscribed => plDatabaseOk = "ok"
    /\ plPc = "init" => plDatabaseOk = "none"
    /\ plDatabaseOk = "failed" =>
          /\ plPc = "failed" /\ ~plSubscribed
          /\ plReceived = 0 /\ plBatch = NoBatch
          /\ lastInsert = NoInsert /\ createIssued = {}

\* The creation of the database has failed and Run has returned the error.
C31_Witness == plDatabaseOk = "failed" /\ plPc = "failed"

\* The other way: the database was created, Run subscribed and handled a batch.
C31_Running == plDatabaseOk = "ok" /\ plSubscribed /\ lastInsert.issued

\* C32: once its ctx is cancelled, Run leaves its loop and returns nil.
C32_CancelStopsRun ==
    (plCtxDone /\ plPc \in {"select", "handle"}) ~> (plPc = "stopped")

\* Run has returned nil after a cancellation that came while a batch was
\* being handled.
C32_Witness == plPc = "stopped" /\ plCancelAt = "handle"

\* Run has returned nil after a cancellation, with errChan closed and
\* stateChangeBatch still open.
C32_ErrcClosed == plPc = "stopped" /\ plCtxDone /\ plErrc = "closed" /\ ~plChanClosed

\* C33: the skip sentinels are handled asymmetrically for every domain.  An
\* event whose new state is a sentinel is dropped; an event whose old state is
\* a sentinel (and whose new state is not) is written with old_state "".
C33_Sentinels ==
    rsPc = "done" =>
        /\ isSkippedValue(rsNew) => rsResult.err
        /\ (isSkippedValue(rsOld) /\ ~isSkippedValue(rsNew)) =>
              (~rsResult.err /\ rsResult.old_state = StringValue(""))

\* C33 without the boolean domains, where it holds.
C33_OtherDomains ==
    (rsPc = "done" /\ rsResult.old_state.type # "bool") => C33_Sentinels

\* A sentinel as old state of a boolean domain is written as false.
C33_BooleanOldState ==
    /\ rsPc = "done" /\ isSkippedValue(rsOld) /\ ~rsResult.err
    /\ rsResult.old_state = BoolValue(FALSE)

\* C34: after the closure of the input Batch has flushed the open partitions
\* and closed its outputs, every routine it started has terminated: no timer
\* is armed (it would fire later) and no timer function runs or waits.
C34_AllTerminated ==
    batPc = "done" =>
        /\ outClosed
        /\ \A t \in DOMAIN timerObjs : timerObjs[t].st \in {"stopped", "done"}

\* The parts of C34 that hold: at the return the open partitions have been
\* flushed and the outputs are closed, and no timer function sends afterwards.
C34_FlushedAndClosed ==
    /\ batPc = "done" =>
          /\ outClosed
          /\ \A k \in DOMAIN batches :
                \E i \in 1..Len(out) : out[i].key = k /\ out[i].by = "close"
          /\ \A t \in DOMAIN timerObjs : timerObjs[t].st # "sending"
          /\ inItems = <<>> => out = <<>>

\* Batch has returned and the function of a timer waits for batchesMtx, which
\* is never unlocked again.
C34_TimerBlocked ==
    /\ batPc = "done" /\ batMtx = "main"
    /\ \E t \in DOMAIN timerObjs : timerObjs[t].st = "fired"

\* C35: no routine ever sends on a subscription output channel that has been
\* closed.
C35_NoSendOnClosed == panicked # "send on closed channel"

\* A send on a closed channel happens only after Close().  This fails too: a
\* SubscribeEvents that failed has closed its channel, and the replay of the
\* snapshot reconnect took before binds a forwarder to it.
C35_WithoutClose == (panicked = "send on closed channel") => closeCalled

\* C36: once the context of a subscription is cancelled and its forwarder has
\* exited, its receiver is no longer in the registry, whichever select the
\* forwarder left from.
C36_ExitedForwarderUnregistered ==
    \A i \in Ids : (subCtxDone /\ fwd[i] = "done") => i \notin activeReceivers

\* The consequence: the receive loop holds the registry mutex and offers an
\* event to a receiver whose forwarder has returned; nobody will take it.  It
\* takes a second event for that id, so it is reached from MaxEvents = 2 on.
C36_ReceiveLoopBlocked ==
    /\ rcvPc = "send" /\ activeReceiversMtx = "recv"
    /\ rcvMsg.id \in Ids /\ fwd[rcvMsg.id] = "done"

\* The outer select's ctx.Done() case does remove the receiver.
C36_OuterSelectUnregisters ==
    \A i \in Ids : (fwd[i] = "done" /\ fwdMsg[i] = 0) => i \notin activeReceivers

\* The forwarders that have not returned.
UnfinishedForwarders == {i \in Ids : fwd[i] \in {"wait", "send", "closing"}}

\* C37: the forwarders of a lost connection terminate, so that after any number
\* of reconnects the subscription has at most one live forwarder.
C37_OneLiveForwarder == Cardinality(UnfinishedForwarders) <= 1

\* C37, the registry: once reconnect has restored the subscription under a new
\* id, the registry holds no receiver with an older id.
C37_NoStaleReceiver ==
    \A j \in replayed : \A i \in activeReceivers : i >= j

\* C37, its first half: a forwarder whose connection was lost has terminated
\* by the time reconnect has finished.
C37_OldForwarderTerminated ==
    (recPc = "idle" /\ replayed # {}) =>
        \A j \in replayed : \A i \in Ids : i < j => fwd[i] \in {"none", "done"}

\* The plain case of C37: the subscription was established and its channel
\* returned before the connection was lost; reconnect has replayed it and
\* returned, and the forwarder of the lost connection still waits on its
\* result channel, registered, next to the forwarder of the replay.
C37_OldForwarderAlive ==
    /\ Len(drops) >= 1 /\ drops[1] /\ recPc = "idle"
    /\ \E i \in activeReceivers : \E j \in replayed :
          i < j /\ fwd[i] = "wait" /\ fwd[j] = "wait"

\* The last invocation of the operation returned an error.
C38_LastCallFailed == lastErr # NoErr /\ lastErr.call = calls

\* C38: for every configuration, MaxRetries <= 0 included, a Do that has
\* returned has invoked the operation at least once; it returns nil only out of
\* an invocation that returned nil, and an invocation that returned nil ends it
\* with nil.
C38_AtLeastOneCall ==
    (retPc = "done") =>
        /\ calls >= 1
        /\ (retResult.tag = "nil") <=> ~C38_LastCallFailed

\* C38 for MaxRetries >= 0 only.
C38_NonNegative ==
    (retPc = "done" /\ cfg.MaxRetries >= 0) =>
        /\ calls >= 1
        /\ (retResult.tag = "nil") <=> ~C38_LastCallFailed

\* MaxRetries = 0: one invocation, no retry.
C38_ZeroRetries ==
    (retPc = "done" /\ cfg.MaxRetries = 0) => calls = 1

\* A Do that returned "operation failed after -1 retries" with a nil cause and
\* without an invocation.
C38_NoCall ==
    /\ retPc = "done" /\ cfg.MaxRetries < 0
    /\ calls = 0 /\ retResult.tag = "exhausted" /\ retResult.err = NoErr

\* C39: an insert goes only into a table whose creation has succeeded earlier
\* in the process; a batch whose table create failed issues no insert into
\* that table.
C39_InsertOnlyAfterCreated ==
    lastInsert.issued => lastInsert.table \in createOk

\* C39, the batch: the only create of the batch failed, and its insert went
\* out with the row of the event whose create failed.
C39_InsertOfFailedBatch ==
    /\ lastInsert.issued /\ Len(lastInsert.rows) >= 1
    /\ Len(lastCreates) >= 1
    /\ \A k \in 1..Len(lastCreates) :
          lastCreates[k].table = lastInsert.table /\ ~lastCreates[k].ok

\* C39 where the create succeeded: the table is in the cache at the insert.
C39_CreatedThenInserted ==
    (lastInsert.issued /\ lastInsert.table \in createOk) =>
        lastInsert.table \in tableExists

\* handleStateChangeBatch returns from a batch whose events all resolve, and
\* has issued an insert into p.database with at least the first row.
C40_ValidBatchInserted ==
    (plPc = "handle" /\ plPc' # "handle"
        /\ \A k \in 1..Len(plBatch) : plBatch[k].resolves) =>
    /\ lastInsert'.issued /\ lastInsert'.database = plDatabase
    /\ Len(lastInsert'.rows) >= 1 /\ lastInsert'.rows[1] = plBatch[1]

\* C40: for every configured database name, a batch of valid state_changed
\* events leads to an insert of its rows into that database; no item is
\* dropped because the resolved database differs from the configured one.
C40_AnyDatabase == [][C40_ValidBatchInserted]_vars

\* C40 for the default database name, the one resolveStateChangeDestination
\* writes into every destination.
C40_DefaultDatabase ==
    [][plDatabase = InsertDatabase => C40_ValidBatchInserted]_vars

\* With another database name both batches are handled and nothing was ever
\* inserted or created.
C40_AllDropped ==
    /\ plDatabase # InsertDatabase
    /\ plReceived = MaxBatches /\ plPc = "select" /\ plIn = NoBatch
    /\ ~lastInsert.issued /\ createIssued = {}

\* With another database name no statement is ever issued.
C40_OtherDatabaseSilent ==
    plDatabase # InsertDatabase => (~lastInsert.issued /\ createIssued = {})

====
